---------------------------- MODULE Spec2Model ----------------------------
(***************************************************************************)
(* Model of the wasm32 swizzle implementation of Vec4A                     *)
(* (src/swizzles/wasm32/vec4a_impl.rs) and of the scalar math facade       *)
(* (src/math.rs).                                                          *)
(***************************************************************************)
EXTENDS Integers, Sequences, FiniteSets, TLC

VARIABLES
  v,      \* the Vec4A receiver `self`: its four 32-bit lanes
  call,   \* the names of the swizzles called so far, first call first
  res,    \* the value the last swizzle returned
  ty,     \* the scalar type of the build, "f32" or "f64"
  prov,   \* the math provider of the build, "libm" or "native"
  arg,    \* the float the caller passes
  arg2,   \* the second argument, of copysign
  op,     \* the function of the facade called, "none" before the call
  out,    \* the value it returned
  trace,  \* the functions the call may have invoked
  again   \* <<r>> once the same call was made a second time and returned r

swzVars == <<v, call, res>>
mathVars == <<ty, prov, arg, arg2, op, out, trace>>
vars == <<v, call, res, ty, prov, arg, arg2, op, out, trace, again>>

(***************************************************************************)
(* Lanes.  A lane holds one 32-bit pattern; no swizzle computes on a lane, *)
(* so the patterns are drawn from 0 .. MaxLane.                            *)
(***************************************************************************)
MaxLane == 1

LaneVals == 0 .. MaxLane

Vec4AValues == [1 .. 4 -> LaneVals]

Letters == {"x", "y", "z", "w"}

\* Vec4A derefs to its fields x, y, z, w, which are lanes 0, 1, 2, 3.
LaneOf(f) ==
  CASE f = "x" -> 0
    [] f = "y" -> 1
    [] f = "z" -> 2
    [] f = "w" -> 3

Field(s, f) == s[LaneOf(f) + 1]

\* A shuffle that numbers the eight lanes from the other end.
i32x4_shuffle_rev(I0, I1, I2, I3, a, b) ==
  LET c == a \o b
  IN  <<c[8 - I0], c[8 - I1], c[8 - I2], c[8 - I3]>>

\* i32x4_shuffle::<I0, I1, I2, I3>(a, b): output lane i is lane I_i of the
\* eight lanes of a followed by b.
i32x4_shuffle(I0, I1, I2, I3, a, b) ==
  LET c == a \o b
  IN  <<c[I0 + 1], c[I1 + 1], c[I2 + 1], c[I3 + 1]>>

\* The sixteen 2-letter functions, in source order: the fields copied.
Fns2 ==
  << [name |-> <<"x", "x">>, ret |-> "Vec2", x |-> "x", y |-> "x"],
     [name |-> <<"x", "y">>, ret |-> "Vec2", x |-> "x", y |-> "y"],
     [name |-> <<"x", "z">>, ret |-> "Vec2", x |-> "x", y |-> "z"],
     [name |-> <<"x", "w">>, ret |-> "Vec2", x |-> "x", y |-> "w"],
     [name |-> <<"y", "x">>, ret |-> "Vec2", x |-> "y", y |-> "x"],
     [name |-> <<"y", "y">>, ret |-> "Vec2", x |-> "y", y |-> "y"],
     [name |-> <<"y", "z">>, ret |-> "Vec2", x |-> "y", y |-> "z"],
     [name |-> <<"y", "w">>, ret |-> "Vec2", x |-> "y", y |-> "w"],
     [name |-> <<"z", "x">>, ret |-> "Vec2", x |-> "z", y |-> "x"],
     [name |-> <<"z", "y">>, ret |-> "Vec2", x |-> "z", y |-> "y"],
     [name |-> <<"z", "z">>, ret |-> "Vec2", x |-> "z", y |-> "z"],
     [name |-> <<"z", "w">>, ret |-> "Vec2", x |-> "z", y |-> "w"],
     [name |-> <<"w", "x">>, ret |-> "Vec2", x |-> "w", y |-> "x"],
     [name |-> <<"w", "y">>, ret |-> "Vec2", x |-> "w", y |-> "y"],
     [name |-> <<"w", "z">>, ret |-> "Vec2", x |-> "w", y |-> "z"],
     [name |-> <<"w", "w">>, ret |-> "Vec2", x |-> "w", y |-> "w"] >>

\* The sixty-four 3-letter functions: the indices given to i32x4_shuffle.
Fns3 ==
  << [name |-> <<"x", "x", "x">>, ret |-> "Vec3A", idx |-> <<0, 0, 4, 4>>],
     [name |-> <<"x", "x", "y">>, ret |-> "Vec3A", idx |-> <<0, 0, 5, 4>>],
     [name |-> <<"x", "x", "z">>, ret |-> "Vec3A", idx |-> <<0, 0, 6, 4>>],
     [name |-> <<"x", "x", "w">>, ret |-> "Vec3A", idx |-> <<0, 0, 7, 4>>],
     [name |-> <<"x", "y", "x">>, ret |-> "Vec3A", idx |-> <<0, 1, 4, 4>>],
     [name |-> <<"x", "y", "y">>, ret |-> "Vec3A", idx |-> <<0, 1, 5, 4>>],
     [name |-> <<"x", "y", "z">>, ret |-> "Vec3A", idx |-> <<0, 1, 6, 4>>],
     [name |-> <<"x", "y", "w">>, ret |-> "Vec3A", idx |-> <<0, 1, 7, 4>>],
     [name |-> <<"x", "z", "x">>, ret |-> "Vec3A", idx |-> <<0, 2, 4, 4>>],
     [name |-> <<"x", "z", "y">>, ret |-> "Vec3A", idx |-> <<0, 2, 5, 4>>],
     [name |-> <<"x", "z", "z">>, ret |-> "Vec3A", idx |-> <<0, 2, 6, 4>>],
     [name |-> <<"x", "z", "w">>, ret |-> "Vec3A", idx |-> <<0, 2, 7, 4>>],
     [name |-> <<"x", "w", "x">>, ret |-> "Vec3A", idx |-> <<0, 3, 4, 4>>],
     [name |-> <<"x", "w", "y">>, ret |-> "Vec3A", idx |-> <<0, 3, 5, 4>>],
     [name |-> <<"x", "w", "z">>, ret |-> "Vec3A", idx |-> <<0, 3, 6, 4>>],
     [name |-> <<"x", "w", "w">>, ret |-> "Vec3A", idx |-> <<0, 3, 7, 4>>],
     [name |-> <<"y", "x", "x">>, ret |-> "Vec3A", idx |-> <<1, 0, 4, 4>>],
     [name |-> <<"y", "x", "y">>, ret |-> "Vec3A", idx |-> <<1, 0, 5, 4>>],
     [name |-> <<"y", "x", "z">>, ret |-> "Vec3A", idx |-> <<1, 0, 6, 4>>],
     [name |-> <<"y", "x", "w">>, ret |-> "Vec3A", idx |-> <<1, 0, 7, 4>>],
     [name |-> <<"y", "y", "x">>, ret |-> "Vec3A", idx |-> <<1, 1, 4, 4>>],
     [name |-> <<"y", "y", "y">>, ret |-> "Vec3A", idx |-> <<1, 1, 5, 4>>],
     [name |-> <<"y", "y", "z">>, ret |-> "Vec3A", idx |-> <<1, 1, 6, 4>>],
     [name |-> <<"y", "y", "w">>, ret |-> "Vec3A", idx |-> <<1, 1, 7, 4>>],
     [name |-> <<"y", "z", "x">>, ret |-> "Vec3A", idx |-> <<1, 2, 4, 4>>],
     [name |-> <<"y", "z", "y">>, ret |-> "Vec3A", idx |-> <<1, 2, 5, 4>>],
     [name |-> <<"y", "z", "z">>, ret |-> "Vec3A", idx |-> <<1, 2, 6, 4>>],
     [name |-> <<"y", "z", "w">>, ret |-> "Vec3A", idx |-> <<1, 2, 7, 4>>],
     [name |-> <<"y", "w", "x">>, ret |-> "Vec3A", idx |-> <<1, 3, 4, 4>>],
     [name |-> <<"y", "w", "y">>, ret |-> "Vec3A", idx |-> <<1, 3, 5, 4>>],
     [name |-> <<"y", "w", "z">>, ret |-> "Vec3A", idx |-> <<1, 3, 6, 4>>],
     [name |-> <<"y", "w", "w">>, ret |-> "Vec3A", idx |-> <<1, 3, 7, 4>>],
     [name |-> <<"z", "x", "x">>, ret |-> "Vec3A", idx |-> <<2, 0, 4, 4>>],
     [name |-> <<"z", "x", "y">>, ret |-> "Vec3A", idx |-> <<2, 0, 5, 4>>],
     [name |-> <<"z", "x", "z">>, ret |-> "Vec3A", idx |-> <<2, 0, 6, 4>>],
     [name |-> <<"z", "x", "w">>, ret |-> "Vec3A", idx |-> <<2, 0, 7, 4>>],
     [name |-> <<"z", "y", "x">>, ret |-> "Vec3A", idx |-> <<2, 1, 4, 4>>],
     [name |-> <<"z", "y", "y">>, ret |-> "Vec3A", idx |-> <<2, 1, 5, 4>>],
     [name |-> <<"z", "y", "z">>, ret |-> "Vec3A", idx |-> <<2, 1, 6, 4>>],
     [name |-> <<"z", "y", "w">>, ret |-> "Vec3A", idx |-> <<2, 1, 7, 4>>],
     [name |-> <<"z", "z", "x">>, ret |-> "Vec3A", idx |-> <<2, 2, 4, 4>>],
     [name |-> <<"z", "z", "y">>, ret |-> "Vec3A", idx |-> <<2, 2, 5, 4>>],
     [name |-> <<"z", "z", "z">>, ret |-> "Vec3A", idx |-> <<2, 2, 6, 4>>],
     [name |-> <<"z", "z", "w">>, ret |-> "Vec3A", idx |-> <<2, 2, 7, 4>>],
     [name |-> <<"z", "w", "x">>, ret |-> "Vec3A", idx |-> <<2, 3, 4, 4>>],
     [name |-> <<"z", "w", "y">>, ret |-> "Vec3A", idx |-> <<2, 3, 5, 4>>],
     [name |-> <<"z", "w", "z">>, ret |-> "Vec3A", idx |-> <<2, 3, 6, 4>>],
     [name |-> <<"z", "w", "w">>, ret |-> "Vec3A", idx |-> <<2, 3, 7, 4>>],
     [name |-> <<"w", "x", "x">>, ret |-> "Vec3A", idx |-> <<3, 0, 4, 4>>],
     [name |-> <<"w", "x", "y">>, ret |-> "Vec3A", idx |-> <<3, 0, 5, 4>>],
     [name |-> <<"w", "x", "z">>, ret |-> "Vec3A", idx |-> <<3, 0, 6, 4>>],
     [name |-> <<"w", "x", "w">>, ret |-> "Vec3A", idx |-> <<3, 0, 7, 4>>],
     [name |-> <<"w", "y", "x">>, ret |-> "Vec3A", idx |-> <<3, 1, 4, 4>>],
     [name |-> <<"w", "y", "y">>, ret |-> "Vec3A", idx |-> <<3, 1, 5, 4>>],
     [name |-> <<"w", "y", "z">>, ret |-> "Vec3A", idx |-> <<3, 1, 6, 4>>],
     [name |-> <<"w", "y", "w">>, ret |-> "Vec3A", idx |-> <<3, 1, 7, 4>>],
     [name |-> <<"w", "z", "x">>, ret |-> "Vec3A", idx |-> <<3, 2, 4, 4>>],
     [name |-> <<"w", "z", "y">>, ret |-> "Vec3A", idx |-> <<3, 2, 5, 4>>],
     [name |-> <<"w", "z", "z">>, ret |-> "Vec3A", idx |-> <<3, 2, 6, 4>>],
     [name |-> <<"w", "z", "w">>, ret |-> "Vec3A", idx |-> <<3, 2, 7, 4>>],
     [name |-> <<"w", "w", "x">>, ret |-> "Vec3A", idx |-> <<3, 3, 4, 4>>],
     [name |-> <<"w", "w", "y">>, ret |-> "Vec3A", idx |-> <<3, 3, 5, 4>>],
     [name |-> <<"w", "w", "z">>, ret |-> "Vec3A", idx |-> <<3, 3, 6, 4>>],
     [name |-> <<"w", "w", "w">>, ret |-> "Vec3A", idx |-> <<3, 3, 7, 4>>] >>

\* The 256 4-letter functions: the indices given to i32x4_shuffle.
Fns4 ==
  << [name |-> <<"x", "x", "x", "x">>, ret |-> "Vec4A", idx |-> <<0, 0, 4, 4>>],
     [name |-> <<"x", "x", "x", "y">>, ret |-> "Vec4A", idx |-> <<0, 0, 4, 5>>],
     [name |-> <<"x", "x", "x", "z">>, ret |-> "Vec4A", idx |-> <<0, 0, 4, 6>>],
     [name |-> <<"x", "x", "x", "w">>, ret |-> "Vec4A", idx |-> <<0, 0, 4, 7>>],
     [name |-> <<"x", "x", "y", "x">>, ret |-> "Vec4A", idx |-> <<0, 0, 5, 4>>],
     [name |-> <<"x", "x", "y", "y">>, ret |-> "Vec4A", idx |-> <<0, 0, 5, 5>>],
     [name |-> <<"x", "x", "y", "z">>, ret |-> "Vec4A", idx |-> <<0, 0, 5, 6>>],
     [name |-> <<"x", "x", "y", "w">>, ret |-> "Vec4A", idx |-> <<0, 0, 5, 7>>],
     [name |-> <<"x", "x", "z", "x">>, ret |-> "Vec4A", idx |-> <<0, 0, 6, 4>>],
     [name |-> <<"x", "x", "z", "y">>, ret |-> "Vec4A", idx |-> <<0, 0, 6, 5>>],
     [name |-> <<"x", "x", "z", "z">>, ret |-> "Vec4A", idx |-> <<0, 0, 6, 6>>],
     [name |-> <<"x", "x", "z", "w">>, ret |-> "Vec4A", idx |-> <<0, 0, 6, 7>>],
     [name |-> <<"x", "x", "w", "x">>, ret |-> "Vec4A", idx |-> <<0, 0, 7, 4>>],
     [name |-> <<"x", "x", "w", "y">>, ret |-> "Vec4A", idx |-> <<0, 0, 7, 5>>],
     [name |-> <<"x", "x", "w", "z">>, ret |-> "Vec4A", idx |-> <<0, 0, 7, 6>>],
     [name |-> <<"x", "x", "w", "w">>, ret |-> "Vec4A", idx |-> <<0, 0, 7, 7>>],
     [name |-> <<"x", "y", "x", "x">>, ret |-> "Vec4A", idx |-> <<0, 1, 4, 4>>],
     [name |-> <<"x", "y", "x", "y">>, ret |-> "Vec4A", idx |-> <<0, 1, 4, 5>>],
     [name |-> <<"x", "y", "x", "z">>, ret |-> "Vec4A", idx |-> <<0, 1, 4, 6>>],
     [name |-> <<"x", "y", "x", "w">>, ret |-> "Vec4A", idx |-> <<0, 1, 4, 7>>],
     [name |-> <<"x", "y", "y", "x">>, ret |-> "Vec4A", idx |-> <<0, 1, 5, 4>>],
     [name |-> <<"x", "y", "y", "y">>, ret |-> "Vec4A", idx |-> <<0, 1, 5, 5>>],
     [name |-> <<"x", "y", "y", "z">>, ret |-> "Vec4A", idx |-> <<0, 1, 5, 6>>],
     [name |-> <<"x", "y", "y", "w">>, ret |-> "Vec4A", idx |-> <<0, 1, 5, 7>>],
     [name |-> <<"x", "y", "z", "x">>, ret |-> "Vec4A", idx |-> <<0, 1, 6, 4>>],
     [name |-> <<"x", "y", "z", "y">>, ret |-> "Vec4A", idx |-> <<0, 1, 6, 5>>],
     [name |-> <<"x", "y", "z", "z">>, ret |-> "Vec4A", idx |-> <<0, 1, 6, 6>>],
     [name |-> <<"x", "y", "z", "w">>, ret |-> "Vec4A", idx |-> <<0, 1, 6, 7>>],
     [name |-> <<"x", "y", "w", "x">>, ret |-> "Vec4A", idx |-> <<0, 1, 7, 4>>],
     [name |-> <<"x", "y", "w", "y">>, ret |-> "Vec4A", idx |-> <<0, 1, 7, 5>>],
     [name |-> <<"x", "y", "w", "z">>, ret |-> "Vec4A", idx |-> <<0, 1, 7, 6>>],
     [name |-> <<"x", "y", "w", "w">>, ret |-> "Vec4A", idx |-> <<0, 1, 7, 7>>],
     [name |-> <<"x", "z", "x", "x">>, ret |-> "Vec4A", idx |-> <<0, 2, 4, 4>>],
     [name |-> <<"x", "z", "x", "y">>, ret |-> "Vec4A", idx |-> <<0, 2, 4, 5>>],
     [name |-> <<"x", "z", "x", "z">>, ret |-> "Vec4A", idx |-> <<0, 2, 4, 6>>],
     [name |-> <<"x", "z", "x", "w">>, ret |-> "Vec4A", idx |-> <<0, 2, 4, 7>>],
     [name |-> <<"x", "z", "y", "x">>, ret |-> "Vec4A", idx |-> <<0, 2, 5, 4>>],
     [name |-> <<"x", "z", "y", "y">>, ret |-> "Vec4A", idx |-> <<0, 2, 5, 5>>],
     [name |-> <<"x", "z", "y", "z">>, ret |-> "Vec4A", idx |-> <<0, 2, 5, 6>>],
     [name |-> <<"x", "z", "y", "w">>, ret |-> "Vec4A", idx |-> <<0, 2, 5, 7>>],
     [name |-> <<"x", "z", "z", "x">>, ret |-> "Vec4A", idx |-> <<0, 2, 6, 4>>],
     [name |-> <<"x", "z", "z", "y">>, ret |-> "Vec4A", idx |-> <<0, 2, 6, 5>>],
     [name |-> <<"x", "z", "z", "z">>, ret |-> "Vec4A", idx |-> <<0, 2, 6, 6>>],
     [name |-> <<"x", "z", "z", "w">>, ret |-> "Vec4A", idx |-> <<0, 2, 6, 7>>],
     [name |-> <<"x", "z", "w", "x">>, ret |-> "Vec4A", idx |-> <<0, 2, 7, 4>>],
     [name |-> <<"x", "z", "w", "y">>, ret |-> "Vec4A", idx |-> <<0, 2, 7, 5>>],
     [name |-> <<"x", "z", "w", "z">>, ret |-> "Vec4A", idx |-> <<0, 2, 7, 6>>],
     [name |-> <<"x", "z", "w", "w">>, ret |-> "Vec4A", idx |-> <<0, 2, 7, 7>>],
     [name |-> <<"x", "w", "x", "x">>, ret |-> "Vec4A", idx |-> <<0, 3, 4, 4>>],
     [name |-> <<"x", "w", "x", "y">>, ret |-> "Vec4A", idx |-> <<0, 3, 4, 5>>],
     [name |-> <<"x", "w", "x", "z">>, ret |-> "Vec4A", idx |-> <<0, 3, 4, 6>>],
     [name |-> <<"x", "w", "x", "w">>, ret |-> "Vec4A", idx |-> <<0, 3, 4, 7>>],
     [name |-> <<"x", "w", "y", "x">>, ret |-> "Vec4A", idx |-> <<0, 3, 5, 4>>],
     [name |-> <<"x", "w", "y", "y">>, ret |-> "Vec4A", idx |-> <<0, 3, 5, 5>>],
     [name |-> <<"x", "w", "y", "z">>, ret |-> "Vec4A", idx |-> <<0, 3, 5, 6>>],
     [name |-> <<"x", "w", "y", "w">>, ret |-> "Vec4A", idx |-> <<0, 3, 5, 7>>],
     [name |-> <<"x", "w", "z", "x">>, ret |-> "Vec4A", idx |-> <<0, 3, 6, 4>>],
     [name |-> <<"x", "w", "z", "y">>, ret |-> "Vec4A", idx |-> <<0, 3, 6, 5>>],
     [name |-> <<"x", "w", "z", "z">>, ret |-> "Vec4A", idx |-> <<0, 3, 6, 6>>],
     [name |-> <<"x", "w", "z", "w">>, ret |-> "Vec4A", idx |-> <<0, 3, 6, 7>>],
     [name |-> <<"x", "w", "w", "x">>, ret |-> "Vec4A", idx |-> <<0, 3, 7, 4>>],
     [name |-> <<"x", "w", "w", "y">>, ret |-> "Vec4A", idx |-> <<0, 3, 7, 5>>],
     [name |-> <<"x", "w", "w", "z">>, ret |-> "Vec4A", idx |-> <<0, 3, 7, 6>>],
     [name |-> <<"x", "w", "w", "w">>, ret |-> "Vec4A", idx |-> <<0, 3, 7, 7>>],
     [name |-> <<"y", "x", "x", "x">>, ret |-> "Vec4A", idx |-> <<1, 0, 4, 4>>],
     [name |-> <<"y", "x", "x", "y">>, ret |-> "Vec4A", idx |-> <<1, 0, 4, 5>>],
     [name |-> <<"y", "x", "x", "z">>, ret |-> "Vec4A", idx |-> <<1, 0, 4, 6>>],
     [name |-> <<"y", "x", "x", "w">>, ret |-> "Vec4A", idx |-> <<1, 0, 4, 7>>],
     [name |-> <<"y", "x", "y", "x">>, ret |-> "Vec4A", idx |-> <<1, 0, 5, 4>>],
     [name |-> <<"y", "x", "y", "y">>, ret |-> "Vec4A", idx |-> <<1, 0, 5, 5>>],
     [name |-> <<"y", "x", "y", "z">>, ret |-> "Vec4A", idx |-> <<1, 0, 5, 6>>],
     [name |-> <<"y", "x", "y", "w">>, ret |-> "Vec4A", idx |-> <<1, 0, 5, 7>>],
     [name |-> <<"y", "x", "z", "x">>, ret |-> "Vec4A", idx |-> <<1, 0, 6, 4>>],
     [name |-> <<"y", "x", "z", "y">>, ret |-> "Vec4A", idx |-> <<1, 0, 6, 5>>],
     [name |-> <<"y", "x", "z", "z">>, ret |-> "Vec4A", idx |-> <<1, 0, 6, 6>>],
     [name |-> <<"y", "x", "z", "w">>, ret |-> "Vec4A", idx |-> <<1, 0, 6, 7>>],
     [name |-> <<"y", "x", "w", "x">>, ret |-> "Vec4A", idx |-> <<1, 0, 7, 4>>],
     [name |-> <<"y", "x", "w", "y">>, ret |-> "Vec4A", idx |-> <<1, 0, 7, 5>>],
     [name |-> <<"y", "x", "w", "z">>, ret |-> "Vec4A", idx |-> <<1, 0, 7, 6>>],
     [name |-> <<"y", "x", "w", "w">>, ret |-> "Vec4A", idx |-> <<1, 0, 7, 7>>],
     [name |-> <<"y", "y", "x", "x">>, ret |-> "Vec4A", idx |-> <<1, 1, 4, 4>>],
     [name |-> <<"y", "y", "x", "y">>, ret |-> "Vec4A", idx |-> <<1, 1, 4, 5>>],
     [name |-> <<"y", "y", "x", "z">>, ret |-> "Vec4A", idx |-> <<1, 1, 4, 6>>],
     [name |-> <<"y", "y", "x", "w">>, ret |-> "Vec4A", idx |-> <<1, 1, 4, 7>>],
     [name |-> <<"y", "y", "y", "x">>, ret |-> "Vec4A", idx |-> <<1, 1, 5, 4>>],
     [name |-> <<"y", "y", "y", "y">>, ret |-> "Vec4A", idx |-> <<1, 1, 5, 5>>],
     [name |-> <<"y", "y", "y", "z">>, ret |-> "Vec4A", idx |-> <<1, 1, 5, 6>>],
     [name |-> <<"y", "y", "y", "w">>, ret |-> "Vec4A", idx |-> <<1, 1, 5, 7>>],
     [name |-> <<"y", "y", "z", "x">>, ret |-> "Vec4A", idx |-> <<1, 1, 6, 4>>],
     [name |-> <<"y", "y", "z", "y">>, ret |-> "Vec4A", idx |-> <<1, 1, 6, 5>>],
     [name |-> <<"y", "y", "z", "z">>, ret |-> "Vec4A", idx |-> <<1, 1, 6, 6>>],
     [name |-> <<"y", "y", "z", "w">>, ret |-> "Vec4A", idx |-> <<1, 1, 6, 7>>],
     [name |-> <<"y", "y", "w", "x">>, ret |-> "Vec4A", idx |-> <<1, 1, 7, 4>>],
     [name |-> <<"y", "y", "w", "y">>, ret |-> "Vec4A", idx |-> <<1, 1, 7, 5>>],
     [name |-> <<"y", "y", "w", "z">>, ret |-> "Vec4A", idx |-> <<1, 1, 7, 6>>],
     [name |-> <<"y", "y", "w", "w">>, ret |-> "Vec4A", idx |-> <<1, 1, 7, 7>>],
     [name |-> <<"y", "z", "x", "x">>, ret |-> "Vec4A", idx |-> <<1, 2, 4, 4>>],
     [name |-> <<"y", "z", "x", "y">>, ret |-> "Vec4A", idx |-> <<1, 2, 4, 5>>],
     [name |-> <<"y", "z", "x", "z">>, ret |-> "Vec4A", idx |-> <<1, 2, 4, 6>>],
     [name |-> <<"y", "z", "x", "w">>, ret |-> "Vec4A", idx |-> <<1, 2, 4, 7>>],
     [name |-> <<"y", "z", "y", "x">>, ret |-> "Vec4A", idx |-> <<1, 2, 5, 4>>],
     [name |-> <<"y", "z", "y", "y">>, ret |-> "Vec4A", idx |-> <<1, 2, 5, 5>>],
     [name |-> <<"y", "z", "y", "z">>, ret |-> "Vec4A", idx |-> <<1, 2, 5, 6>>],
     [name |-> <<"y", "z", "y", "w">>, ret |-> "Vec4A", idx |-> <<1, 2, 5, 7>>],
     [name |-> <<"y", "z", "z", "x">>, ret |-> "Vec4A", idx |-> <<1, 2, 6, 4>>],
     [name |-> <<"y", "z", "z", "y">>, ret |-> "Vec4A", idx |-> <<1, 2, 6, 5>>],
     [name |-> <<"y", "z", "z", "z">>, ret |-> "Vec4A", idx |-> <<1, 2, 6, 6>>],
     [name |-> <<"y", "z", "z", "w">>, ret |-> "Vec4A", idx |-> <<1, 2, 6, 7>>],
     [name |-> <<"y", "z", "w", "x">>, ret |-> "Vec4A", idx |-> <<1, 2, 7, 4>>],
     [name |-> <<"y", "z", "w", "y">>, ret |-> "Vec4A", idx |-> <<1, 2, 7, 5>>],
     [name |-> <<"y", "z", "w", "z">>, ret |-> "Vec4A", idx |-> <<1, 2, 7, 6>>],
     [name |-> <<"y", "z", "w", "w">>, ret |-> "Vec4A", idx |-> <<1, 2, 7, 7>>],
     [name |-> <<"y", "w", "x", "x">>, ret |-> "Vec4A", idx |-> <<1, 3, 4, 4>>],
     [name |-> <<"y", "w", "x", "y">>, ret |-> "Vec4A", idx |-> <<1, 3, 4, 5>>],
     [name |-> <<"y", "w", "x", "z">>, ret |-> "Vec4A", idx |-> <<1, 3, 4, 6>>],
     [name |-> <<"y", "w", "x", "w">>, ret |-> "Vec4A", idx |-> <<1, 3, 4, 7>>],
     [name |-> <<"y", "w", "y", "x">>, ret |-> "Vec4A", idx |-> <<1, 3, 5, 4>>],
     [name |-> <<"y", "w", "y", "y">>, ret |-> "Vec4A", idx |-> <<1, 3, 5, 5>>],
     [name |-> <<"y", "w", "y", "z">>, ret |-> "Vec4A", idx |-> <<1, 3, 5, 6>>],
     [name |-> <<"y", "w", "y", "w">>, ret |-> "Vec4A", idx |-> <<1, 3, 5, 7>>],
     [name |-> <<"y", "w", "z", "x">>, ret |-> "Vec4A", idx |-> <<1, 3, 6, 4>>],
     [name |-> <<"y", "w", "z", "y">>, ret |-> "Vec4A", idx |-> <<1, 3, 6, 5>>],
     [name |-> <<"y", "w", "z", "z">>, ret |-> "Vec4A", idx |-> <<1, 3, 6, 6>>],
     [name |-> <<"y", "w", "z", "w">>, ret |-> "Vec4A", idx |-> <<1, 3, 6, 7>>],
     [name |-> <<"y", "w", "w", "x">>, ret |-> "Vec4A", idx |-> <<1, 3, 7, 4>>],
     [name |-> <<"y", "w", "w", "y">>, ret |-> "Vec4A", idx |-> <<1, 3, 7, 5>>],
     [name |-> <<"y", "w", "w", "z">>, ret |-> "Vec4A", idx |-> <<1, 3, 7, 6>>],
     [name |-> <<"y", "w", "w", "w">>, ret |-> "Vec4A", idx |-> <<1, 3, 7, 7>>],
     [name |-> <<"z", "x", "x", "x">>, ret |-> "Vec4A", idx |-> <<2, 0, 4, 4>>],
     [name |-> <<"z", "x", "x", "y">>, ret |-> "Vec4A", idx |-> <<2, 0, 4, 5>>],
     [name |-> <<"z", "x", "x", "z">>, ret |-> "Vec4A", idx |-> <<2, 0, 4, 6>>],
     [name |-> <<"z", "x", "x", "w">>, ret |-> "Vec4A", idx |-> <<2, 0, 4, 7>>],
     [name |-> <<"z", "x", "y", "x">>, ret |-> "Vec4A", idx |-> <<2, 0, 5, 4>>],
     [name |-> <<"z", "x", "y", "y">>, ret |-> "Vec4A", idx |-> <<2, 0, 5, 5>>],
     [name |-> <<"z", "x", "y", "z">>, ret |-> "Vec4A", idx |-> <<2, 0, 5, 6>>],
     [name |-> <<"z", "x", "y", "w">>, ret |-> "Vec4A", idx |-> <<2, 0, 5, 7>>],
     [name |-> <<"z", "x", "z", "x">>, ret |-> "Vec4A", idx |-> <<2, 0, 6, 4>>],
     [name |-> <<"z", "x", "z", "y">>, ret |-> "Vec4A", idx |-> <<2, 0, 6, 5>>],
     [name |-> <<"z", "x", "z", "z">>, ret |-> "Vec4A", idx |-> <<2, 0, 6, 6>>],
     [name |-> <<"z", "x", "z", "w">>, ret |-> "Vec4A", idx |-> <<2, 0, 6, 7>>],
     [name |-> <<"z", "x", "w", "x">>, ret |-> "Vec4A", idx |-> <<2, 0, 7, 4>>],
     [name |-> <<"z", "x", "w", "y">>, ret |-> "Vec4A", idx |-> <<2, 0, 7, 5>>],
     [name |-> <<"z", "x", "w", "z">>, ret |-> "Vec4A", idx |-> <<2, 0, 7, 6>>],
     [name |-> <<"z", "x", "w", "w">>, ret |-> "Vec4A", idx |-> <<2, 0, 7, 7>>],
     [name |-> <<"z", "y", "x", "x">>, ret |-> "Vec4A", idx |-> <<2, 1, 4, 4>>],
     [name |-> <<"z", "y", "x", "y">>, ret |-> "Vec4A", idx |-> <<2, 1, 4, 5>>],
     [name |-> <<"z", "y", "x", "z">>, ret |-> "Vec4A", idx |-> <<2, 1, 4, 6>>],
     [name |-> <<"z", "y", "x", "w">>, ret |-> "Vec4A", idx |-> <<2, 1, 4, 7>>],
     [name |-> <<"z", "y", "y", "x">>, ret |-> "Vec4A", idx |-> <<2, 1, 5, 4>>],
     [name |-> <<"z", "y", "y", "y">>, ret |-> "Vec4A", idx |-> <<2, 1, 5, 5>>],
     [name |-> <<"z", "y", "y", "z">>, ret |-> "Vec4A", idx |-> <<2, 1, 5, 6>>],
     [name |-> <<"z", "y", "y", "w">>, ret |-> "Vec4A", idx |-> <<2, 1, 5, 7>>],
     [name |-> <<"z", "y", "z", "x">>, ret |-> "Vec4A", idx |-> <<2, 1, 6, 4>>],
     [name |-> <<"z", "y", "z", "y">>, ret |-> "Vec4A", idx |-> <<2, 1, 6, 5>>],
     [name |-> <<"z", "y", "z", "z">>, ret |-> "Vec4A", idx |-> <<2, 1, 6, 6>>],
     [name |-> <<"z", "y", "z", "w">>, ret |-> "Vec4A", idx |-> <<2, 1, 6, 7>>],
     [name |-> <<"z", "y", "w", "x">>, ret |-> "Vec4A", idx |-> <<2, 1, 7, 4>>],
     [name |-> <<"z", "y", "w", "y">>, ret |-> "Vec4A", idx |-> <<2, 1, 7, 5>>],
     [name |-> <<"z", "y", "w", "z">>, ret |-> "Vec4A", idx |-> <<2, 1, 7, 6>>],
     [name |-> <<"z", "y", "w", "w">>, ret |-> "Vec4A", idx |-> <<2, 1, 7, 7>>],
     [name |-> <<"z", "z", "x", "x">>, ret |-> "Vec4A", idx |-> <<2, 2, 4, 4>>],
     [name |-> <<"z", "z", "x", "y">>, ret |-> "Vec4A", idx |-> <<2, 2, 4, 5>>],
     [name |-> <<"z", "z", "x", "z">>, ret |-> "Vec4A", idx |-> <<2, 2, 4, 6>>],
     [name |-> <<"z", "z", "x", "w">>, ret |-> "Vec4A", idx |-> <<2, 2, 4, 7>>],
     [name |-> <<"z", "z", "y", "x">>, ret |-> "Vec4A", idx |-> <<2, 2, 5, 4>>],
     [name |-> <<"z", "z", "y", "y">>, ret |-> "Vec4A", idx |-> <<2, 2, 5, 5>>],
     [name |-> <<"z", "z", "y", "z">>, ret |-> "Vec4A", idx |-> <<2, 2, 5, 6>>],
     [name |-> <<"z", "z", "y", "w">>, ret |-> "Vec4A", idx |-> <<2, 2, 5, 7>>],
     [name |-> <<"z", "z", "z", "x">>, ret |-> "Vec4A", idx |-> <<2, 2, 6, 4>>],
     [name |-> <<"z", "z", "z", "y">>, ret |-> "Vec4A", idx |-> <<2, 2, 6, 5>>],
     [name |-> <<"z", "z", "z", "z">>, ret |-> "Vec4A", idx |-> <<2, 2, 6, 6>>],
     [name |-> <<"z", "z", "z", "w">>, ret |-> "Vec4A", idx |-> <<2, 2, 6, 7>>],
     [name |-> <<"z", "z", "w", "x">>, ret |-> "Vec4A", idx |-> <<2, 2, 7, 4>>],
     [name |-> <<"z", "z", "w", "y">>, ret |-> "Vec4A", idx |-> <<2, 2, 7, 5>>],
     [name |-> <<"z", "z", "w", "z">>, ret |-> "Vec4A", idx |-> <<2, 2, 7, 6>>],
     [name |-> <<"z", "z", "w", "w">>, ret |-> "Vec4A", idx |-> <<2, 2, 7, 7>>],
     [name |-> <<"z", "w", "x", "x">>, ret |-> "Vec4A", idx |-> <<2, 3, 4, 4>>],
     [name |-> <<"z", "w", "x", "y">>, ret |-> "Vec4A", idx |-> <<2, 3, 4, 5>>],
     [name |-> <<"z", "w", "x", "z">>, ret |-> "Vec4A", idx |-> <<2, 3, 4, 6>>],
     [name |-> <<"z", "w", "x", "w">>, ret |-> "Vec4A", idx |-> <<2, 3, 4, 7>>],
     [name |-> <<"z", "w", "y", "x">>, ret |-> "Vec4A", idx |-> <<2, 3, 5, 4>>],
     [name |-> <<"z", "w", "y", "y">>, ret |-> "Vec4A", idx |-> <<2, 3, 5, 5>>],
     [name |-> <<"z", "w", "y", "z">>, ret |-> "Vec4A", idx |-> <<2, 3, 5, 6>>],
     [name |-> <<"z", "w", "y", "w">>, ret |-> "Vec4A", idx |-> <<2, 3, 5, 7>>],
     [name |-> <<"z", "w", "z", "x">>, ret |-> "Vec4A", idx |-> <<2, 3, 6, 4>>],
     [name |-> <<"z", "w", "z", "y">>, ret |-> "Vec4A", idx |-> <<2, 3, 6, 5>>],
     [name |-> <<"z", "w", "z", "z">>, ret |-> "Vec4A", idx |-> <<2, 3, 6, 6>>],
     [name |-> <<"z", "w", "z", "w">>, ret |-> "Vec4A", idx |-> <<2, 3, 6, 7>>],
     [name |-> <<"z", "w", "w", "x">>, ret |-> "Vec4A", idx |-> <<2, 3, 7, 4>>],
     [name |-> <<"z", "w", "w", "y">>, ret |-> "Vec4A", idx |-> <<2, 3, 7, 5>>],
     [name |-> <<"z", "w", "w", "z">>, ret |-> "Vec4A", idx |-> <<2, 3, 7, 6>>],
     [name |-> <<"z", "w", "w", "w">>, ret |-> "Vec4A", idx |-> <<2, 3, 7, 7>>],
     [name |-> <<"w", "x", "x", "x">>, ret |-> "Vec4A", idx |-> <<3, 0, 4, 4>>],
     [name |-> <<"w", "x", "x", "y">>, ret |-> "Vec4A", idx |-> <<3, 0, 4, 5>>],
     [name |-> <<"w", "x", "x", "z">>, ret |-> "Vec4A", idx |-> <<3, 0, 4, 6>>],
     [name |-> <<"w", "x", "x", "w">>, ret |-> "Vec4A", idx |-> <<3, 0, 4, 7>>],
     [name |-> <<"w", "x", "y", "x">>, ret |-> "Vec4A", idx |-> <<3, 0, 5, 4>>],
     [name |-> <<"w", "x", "y", "y">>, ret |-> "Vec4A", idx |-> <<3, 0, 5, 5>>],
     [name |-> <<"w", "x", "y", "z">>, ret |-> "Vec4A", idx |-> <<3, 0, 5, 6>>],
     [name |-> <<"w", "x", "y", "w">>, ret |-> "Vec4A", idx |-> <<3, 0, 5, 7>>],
     [name |-> <<"w", "x", "z", "x">>, ret |-> "Vec4A", idx |-> <<3, 0, 6, 4>>],
     [name |-> <<"w", "x", "z", "y">>, ret |-> "Vec4A", idx |-> <<3, 0, 6, 5>>],
     [name |-> <<"w", "x", "z", "z">>, ret |-> "Vec4A", idx |-> <<3, 0, 6, 6>>],
     [name |-> <<"w", "x", "z", "w">>, ret |-> "Vec4A", idx |-> <<3, 0, 6, 7>>],
     [name |-> <<"w", "x", "w", "x">>, ret |-> "Vec4A", idx |-> <<3, 0, 7, 4>>],
     [name |-> <<"w", "x", "w", "y">>, ret |-> "Vec4A", idx |-> <<3, 0, 7, 5>>],
     [name |-> <<"w", "x", "w", "z">>, ret |-> "Vec4A", idx |-> <<3, 0, 7, 6>>],
     [name |-> <<"w", "x", "w", "w">>, ret |-> "Vec4A", idx |-> <<3, 0, 7, 7>>],
     [name |-> <<"w", "y", "x", "x">>, ret |-> "Vec4A", idx |-> <<3, 1, 4, 4>>],
     [name |-> <<"w", "y", "x", "y">>, ret |-> "Vec4A", idx |-> <<3, 1, 4, 5>>],
     [name |-> <<"w", "y", "x", "z">>, ret |-> "Vec4A", idx |-> <<3, 1, 4, 6>>],
     [name |-> <<"w", "y", "x", "w">>, ret |-> "Vec4A", idx |-> <<3, 1, 4, 7>>],
     [name |-> <<"w", "y", "y", "x">>, ret |-> "Vec4A", idx |-> <<3, 1, 5, 4>>],
     [name |-> <<"w", "y", "y", "y">>, ret |-> "Vec4A", idx |-> <<3, 1, 5, 5>>],
     [name |-> <<"w", "y", "y", "z">>, ret |-> "Vec4A", idx |-> <<3, 1, 5, 6>>],
     [name |-> <<"w", "y", "y", "w">>, ret |-> "Vec4A", idx |-> <<3, 1, 5, 7>>],
     [name |-> <<"w", "y", "z", "x">>, ret |-> "Vec4A", idx |-> <<3, 1, 6, 4>>],
     [name |-> <<"w", "y", "z", "y">>, ret |-> "Vec4A", idx |-> <<3, 1, 6, 5>>],
     [name |-> <<"w", "y", "z", "z">>, ret |-> "Vec4A", idx |-> <<3, 1, 6, 6>>],
     [name |-> <<"w", "y", "z", "w">>, ret |-> "Vec4A", idx |-> <<3, 1, 6, 7>>],
     [name |-> <<"w", "y", "w", "x">>, ret |-> "Vec4A", idx |-> <<3, 1, 7, 4>>],
     [name |-> <<"w", "y", "w", "y">>, ret |-> "Vec4A", idx |-> <<3, 1, 7, 5>>],
     [name |-> <<"w", "y", "w", "z">>, ret |-> "Vec4A", idx |-> <<3, 1, 7, 6>>],
     [name |-> <<"w", "y", "w", "w">>, ret |-> "Vec4A", idx |-> <<3, 1, 7, 7>>],
     [name |-> <<"w", "z", "x", "x">>, ret |-> "Vec4A", idx |-> <<3, 2, 4, 4>>],
     [name |-> <<"w", "z", "x", "y">>, ret |-> "Vec4A", idx |-> <<3, 2, 4, 5>>],
     [name |-> <<"w", "z", "x", "z">>, ret |-> "Vec4A", idx |-> <<3, 2, 4, 6>>],
     [name |-> <<"w", "z", "x", "w">>, ret |-> "Vec4A", idx |-> <<3, 2, 4, 7>>],
     [name |-> <<"w", "z", "y", "x">>, ret |-> "Vec4A", idx |-> <<3, 2, 5, 4>>],
     [name |-> <<"w", "z", "y", "y">>, ret |-> "Vec4A", idx |-> <<3, 2, 5, 5>>],
     [name |-> <<"w", "z", "y", "z">>, ret |-> "Vec4A", idx |-> <<3, 2, 5, 6>>],
     [name |-> <<"w", "z", "y", "w">>, ret |-> "Vec4A", idx |-> <<3, 2, 5, 7>>],
     [name |-> <<"w", "z", "z", "x">>, ret |-> "Vec4A", idx |-> <<3, 2, 6, 4>>],
     [name |-> <<"w", "z", "z", "y">>, ret |-> "Vec4A", idx |-> <<3, 2, 6, 5>>],
     [name |-> <<"w", "z", "z", "z">>, ret |-> "Vec4A", idx |-> <<3, 2, 6, 6>>],
     [name |-> <<"w", "z", "z", "w">>, ret |-> "Vec4A", idx |-> <<3, 2, 6, 7>>],
     [name |-> <<"w", "z", "w", "x">>, ret |-> "Vec4A", idx |-> <<3, 2, 7, 4>>],
     [name |-> <<"w", "z", "w", "y">>, ret |-> "Vec4A", idx |-> <<3, 2, 7, 5>>],
     [name |-> <<"w", "z", "w", "z">>, ret |-> "Vec4A", idx |-> <<3, 2, 7, 6>>],
     [name |-> <<"w", "z", "w", "w">>, ret |-> "Vec4A", idx |-> <<3, 2, 7, 7>>],
     [name |-> <<"w", "w", "x", "x">>, ret |-> "Vec4A", idx |-> <<3, 3, 4, 4>>],
     [name |-> <<"w", "w", "x", "y">>, ret |-> "Vec4A", idx |-> <<3, 3, 4, 5>>],
     [name |-> <<"w", "w", "x", "z">>, ret |-> "Vec4A", idx |-> <<3, 3, 4, 6>>],
     [name |-> <<"w", "w", "x", "w">>, ret |-> "Vec4A", idx |-> <<3, 3, 4, 7>>],
     [name |-> <<"w", "w", "y", "x">>, ret |-> "Vec4A", idx |-> <<3, 3, 5, 4>>],
     [name |-> <<"w", "w", "y", "y">>, ret |-> "Vec4A", idx |-> <<3, 3, 5, 5>>],
     [name |-> <<"w", "w", "y", "z">>, ret |-> "Vec4A", idx |-> <<3, 3, 5, 6>>],
     [name |-> <<"w", "w", "y", "w">>, ret |-> "Vec4A", idx |-> <<3, 3, 5, 7>>],
     [name |-> <<"w", "w", "z", "x">>, ret |-> "Vec4A", idx |-> <<3, 3, 6, 4>>],
     [name |-> <<"w", "w", "z", "y">>, ret |-> "Vec4A", idx |-> <<3, 3, 6, 5>>],
     [name |-> <<"w", "w", "z", "z">>, ret |-> "Vec4A", idx |-> <<3, 3, 6, 6>>],
     [name |-> <<"w", "w", "z", "w">>, ret |-> "Vec4A", idx |-> <<3, 3, 6, 7>>],
     [name |-> <<"w", "w", "w", "x">>, ret |-> "Vec4A", idx |-> <<3, 3, 7, 4>>],
     [name |-> <<"w", "w", "w", "y">>, ret |-> "Vec4A", idx |-> <<3, 3, 7, 5>>],
     [name |-> <<"w", "w", "w", "z">>, ret |-> "Vec4A", idx |-> <<3, 3, 7, 6>>],
     [name |-> <<"w", "w", "w", "w">>, ret |-> "Vec4A", idx |-> <<3, 3, 7, 7>>] >>

\* The impl with xxy generated with the indices of xxz.
Vec4Swizzles_wrongidx ==
  Fns2 \o [Fns3 EXCEPT ![2].idx = <<0, 0, 6, 4>>] \o Fns4

\* The impl with wwww generated under the name wwwz (wwww is missing).
Vec4Swizzles_dupname ==
  Fns2 \o Fns3 \o [Fns4 EXCEPT ![256].name = <<"w", "w", "w", "z">>]

\* impl Vec4Swizzles for Vec4A: every function of the impl, in source order.
Vec4Swizzles == Fns2 \o Fns3 \o Fns4

\* A 2-letter function builds a Vec2 from two fields of self.
Swizzle2(e, s) == [ty |-> "Vec2", lanes |-> <<Field(s, e.x), Field(s, e.y)>>]

\* Vec3A::from(v128) keeps the register: four physical lanes.
Vec3A_from(t) == [ty |-> "Vec3A", lanes |-> t]

\* A 3-letter function whose padding lane repeats the third selected lane.
Swizzle3_padlast(e, s) ==
  Vec3A_from(i32x4_shuffle(e.idx[1], e.idx[2], e.idx[3], e.idx[3], s, s))

\* A 3-letter function that shuffles self.0 with a zeroed register.
Swizzle3_zero(e, s) ==
  Vec3A_from(i32x4_shuffle(e.idx[1], e.idx[2], e.idx[3], e.idx[4], s,
                           <<0, 0, 0, 0>>))

\* A 3-letter function shuffles self.0 with itself and converts into Vec3A.
Swizzle3(e, s) ==
  Vec3A_from(i32x4_shuffle(e.idx[1], e.idx[2], e.idx[3], e.idx[4], s, s))

\* A 4-letter function that shuffles self.0 with a zeroed register.
Swizzle4_zero(e, s) ==
  [ty |-> "Vec4A",
   lanes |-> i32x4_shuffle(e.idx[1], e.idx[2], e.idx[3], e.idx[4], s,
                           <<0, 0, 0, 0>>)]

\* A 4-letter function shuffles self.0 with itself and wraps it in Vec4A.
Swizzle4(e, s) ==
  [ty |-> "Vec4A",
   lanes |-> i32x4_shuffle(e.idx[1], e.idx[2], e.idx[3], e.idx[4], s, s)]

Swizzle(e, s) ==
  CASE e.ret = "Vec2"  -> Swizzle2(e, s)
    [] e.ret = "Vec3A" -> Swizzle3(e, s)
    [] e.ret = "Vec4A" -> Swizzle4(e, s)

\* The logical components of a value: a Vec3A has three, its fourth physical
\* lane is padding.
LogicalWidth(t) ==
  CASE t = "Vec2"  -> 2
    [] t = "Vec3A" -> 3
    [] t = "Vec4A" -> 4

Logical(r) == SubSeq(r.lanes, 1, LogicalWidth(r.ty))

NoValue == [ty |-> "none", lanes |-> <<>>]

(***************************************************************************)
(* Unsigned integers wider than TLC's integers: little-endian sequences of  *)
(* 15-bit limbs with no leading zero limb (zero is the empty sequence).    *)
(* They carry the u32 / u64 of to_bits and the significands of the float   *)
(* arithmetic.                                                             *)
(***************************************************************************)
LimbBits == 15

Base == 2 ^ LimbBits

RECURSIVE Norm(_)
Norm(a) ==
  IF a = <<>> THEN a
  ELSE IF a[Len(a)] = 0 THEN Norm(SubSeq(a, 1, Len(a) - 1)) ELSE a

RECURSIVE Nat2Big(_)
Nat2Big(n) == IF n = 0 THEN <<>> ELSE <<n % Base>> \o Nat2Big(n \div Base)

Limb(a, i) == IF i <= Len(a) THEN a[i] ELSE 0

RECURSIVE AddFrom(_, _, _, _)
AddFrom(a, b, i, c) ==
  IF i > Len(a) /\ i > Len(b)
  THEN IF c = 0 THEN <<>> ELSE <<c>>
  ELSE LET s == Limb(a, i) + Limb(b, i) + c
       IN  <<s % Base>> \o AddFrom(a, b, i + 1, s \div Base)

BigAdd(a, b) == AddFrom(a, b, 1, 0)

\* a - b for a >= b.
RECURSIVE SubFrom(_, _, _, _)
SubFrom(a, b, i, br) ==
  IF i > Len(a) THEN <<>>
  ELSE LET d == a[i] - Limb(b, i) - br
       IN  IF d < 0 THEN <<d + Base>> \o SubFrom(a, b, i + 1, 1)
                    ELSE <<d>> \o SubFrom(a, b, i + 1, 0)

BigSub(a, b) == Norm(SubFrom(a, b, 1, 0))

RECURSIVE LtFrom(_, _, _)
LtFrom(a, b, i) ==
  IF i = 0 THEN FALSE
  ELSE IF a[i] # b[i] THEN a[i] < b[i] ELSE LtFrom(a, b, i - 1)

BigLt(a, b) ==
  IF Len(a) # Len(b) THEN Len(a) < Len(b) ELSE LtFrom(a, b, Len(a))

BigLe(a, b) == ~BigLt(b, a)

\* a * k for a limb k, from limb i with carry c.
RECURSIVE MulLimbFrom(_, _, _, _)
MulLimbFrom(a, k, i, c) ==
  IF i > Len(a) THEN IF c = 0 THEN <<>> ELSE <<c>>
  ELSE LET p == a[i] * k + c
       IN  <<p % Base>> \o MulLimbFrom(a, k, i + 1, p \div Base)

MulLimb(a, k) == IF k = 0 THEN <<>> ELSE MulLimbFrom(a, k, 1, 0)

\* a times Base.
ShiftLimb(a) == IF a = <<>> THEN a ELSE <<0>> \o a

RECURSIVE MulFrom(_, _, _)
MulFrom(a, b, j) ==
  IF j > Len(b) THEN <<>>
  ELSE BigAdd(MulLimb(a, b[j]), ShiftLimb(MulFrom(a, b, j + 1)))

BigMul(a, b) == MulFrom(a, b, 1)

RECURSIVE IntBitLen(_)
IntBitLen(n) == IF n = 0 THEN 0 ELSE 1 + IntBitLen(n \div 2)

BitLen(a) ==
  IF a = <<>> THEN 0 ELSE LimbBits * (Len(a) - 1) + IntBitLen(a[Len(a)])

\* a times Base^q.
ShiftLimbs(a, q) == IF a = <<>> THEN a ELSE [i \in 1 .. q |-> 0] \o a

\* a << n
BigShl(a, n) == ShiftLimbs(MulLimb(a, 2 ^ (n % LimbBits)), n \div LimbBits)

\* a >> n
BigShr(a, n) ==
  LET q == n \div LimbBits
      r == n % LimbBits
      b == IF q >= Len(a) THEN <<>> ELSE SubSeq(a, q + 1, Len(a))
  IN  Norm([i \in 1 .. Len(b) |->
              (b[i] \div (2 ^ r))
                + (Limb(b, i + 1) % (2 ^ r)) * (2 ^ (LimbBits - r))])

\* Bit k of a, bit 0 the lowest.
BigBit(a, k) ==
  (Limb(a, (k \div LimbBits) + 1) \div (2 ^ (k % LimbBits))) % 2

\* Whether the n lowest bits of a are all zero.
LowZero(a, n) == BigShl(BigShr(a, n), n) = a

\* One step of the long division of a by d: st holds the quotient and the
\* remainder of the bits of a above bit st.k.
DivStep(a, d, st) ==
  LET r2 == BigAdd(BigAdd(st.rem, st.rem), Nat2Big(BigBit(a, st.k)))
      q2 == BigAdd(st.quot, st.quot)
  IN  IF BigLe(d, r2)
      THEN [k |-> st.k - 1, quot |-> BigAdd(q2, <<1>>), rem |-> BigSub(r2, d)]
      ELSE [k |-> st.k - 1, quot |-> q2, rem |-> r2]

\* At most n steps.
RECURSIVE DivBits(_, _, _, _)
DivBits(a, d, st, n) ==
  IF n = 0 \/ st.k < 0 THEN st ELSE DivBits(a, d, DivStep(a, d, st), n - 1)

\* All the steps, a limb of bits at a time.
RECURSIVE DivFrom(_, _, _)
DivFrom(a, d, st) ==
  IF st.k < 0 THEN st ELSE DivFrom(a, d, DivBits(a, d, st, LimbBits))

\* The quotient and the remainder of a by d.
BigDivMod(a, d) ==
  DivFrom(a, d, [k |-> BitLen(a) - 1, quot |-> <<>>, rem |-> <<>>])

\* One step of the integer square root of a: st.s is the root of the bits
\* above bit st.k.
SqrtStep(a, st) ==
  LET c == BigAdd(st.s, BigShl(<<1>>, st.k))
  IN  IF BigLe(BigMul(c, c), a) THEN [k |-> st.k - 1, s |-> c]
                                ELSE [k |-> st.k - 1, s |-> st.s]

RECURSIVE SqrtBits(_, _, _)
SqrtBits(a, st, n) ==
  IF n = 0 \/ st.k < 0 THEN st ELSE SqrtBits(a, SqrtStep(a, st), n - 1)

RECURSIVE SqrtFrom(_, _)
SqrtFrom(a, st) ==
  IF st.k < 0 THEN st ELSE SqrtFrom(a, SqrtBits(a, st, LimbBits))

\* The integer square root of a.
BigSqrt(a) == SqrtFrom(a, [k |-> (BitLen(a) + 1) \div 2, s |-> <<>>]).s

RECURSIVE BigPow10(_)
BigPow10(p) == IF p = 0 THEN <<1>> ELSE MulLimb(BigPow10(p - 1), 10)

(***************************************************************************)
(* IEEE-754 binary32 and binary64.  A float is its three bit fields:       *)
(* [sign, exp, frac], frac a wide unsigned integer.                        *)
(***************************************************************************)
ScalarTypes == {"f32", "f64"}

\* The width of the exponent field.
EBits(T) == IF T = "f32" THEN 8 ELSE 11

\* The width of the fraction field.
MBits(T) == IF T = "f32" THEN 23 ELSE 52

Bias(T) == 2 ^ (EBits(T) - 1) - 1

ExpMax(T) == 2 ^ EBits(T) - 1

Flt(s, e, f) == [sign |-> s, exp |-> e, frac |-> f]

FZero(s) == Flt(s, 0, <<>>)

FInf(T, s) == Flt(s, ExpMax(T), <<>>)

\* The NaN the arithmetic below returns: quiet, positive, no payload.
QNaN(T) == Flt(0, ExpMax(T), BigShl(<<1>>, MBits(T) - 1))

IsNaN(T, a) == a.exp = ExpMax(T) /\ a.frac # <<>>

IsInf(T, a) == a.exp = ExpMax(T) /\ a.frac = <<>>

IsZero(a) == a.exp = 0 /\ a.frac = <<>>

\* A finite float is Mant * 2^Exp2.
Mant(T, a) ==
  IF a.exp = 0 THEN a.frac ELSE BigAdd(a.frac, BigShl(<<1>>, MBits(T)))

Exp2(T, a) == (IF a.exp = 0 THEN 1 ELSE a.exp) - Bias(T) - MBits(T)

Max(i, j) == IF i < j THEN j ELSE i

Min(i, j) == IF i < j THEN i ELSE j

\* m >> sh, or m << -sh.
Shift(m, sh) == IF sh > 0 THEN BigShr(m, sh) ELSE BigShl(m, 0 - sh)

\* Whether m without its sh low bits, which is kept, rounds up: the bits
\* dropped are more than half a unit, or half a unit and kept is odd.
RoundsUp(m, sh, sticky, kept) ==
  /\ sh > 0
  /\ BigBit(m, sh - 1) = 1
  /\ \/ sticky
     \/ (sh > 1 /\ ~LowZero(m, sh - 1))
     \/ BigBit(kept, 0) = 1

RoundKept(m, sh, sticky, kept) ==
  IF RoundsUp(m, sh, sticky, kept) THEN BigAdd(kept, <<1>>) ELSE kept

\* The float of sign s and value kept * 2^q, kept of at most MBits + 1 bits
\* (fewer only at the least q): subnormal, normal or overflowed to infinity.
Pack(T, s, kept, q) ==
  IF BitLen(kept) <= MBits(T) THEN Flt(s, 0, kept)
  ELSE IF q + MBits(T) + Bias(T) >= ExpMax(T) THEN FInf(T, s)
  ELSE Flt(s, q + MBits(T) + Bias(T), BigSub(kept, BigShl(<<1>>, MBits(T))))

\* The same when rounding up may have carried into one more bit.
Renorm(T, s, kept, q) ==
  IF BitLen(kept) = MBits(T) + 2 THEN Pack(T, s, BigShr(kept, 1), q + 1)
  ELSE Pack(T, s, kept, q)

\* m * 2^e rounded to a multiple of 2^q.
RoundTo(T, s, m, e, sticky, q) ==
  Renorm(T, s, RoundKept(m, q - e, sticky, Shift(m, q - e)), q)

\* The exponent of the last place of a float as large as m * 2^e.
Quantum(T, m, e) ==
  Max(e + BitLen(m) - 1 - MBits(T), 1 - Bias(T) - MBits(T))

\* The float nearest to m * 2^e (m > 0), ties to even; sticky says that the
\* exact value is a little above m * 2^e (by less than 2^e).
RoundPack(T, s, m, e, sticky) == RoundTo(T, s, m, e, sticky, Quantum(T, m, e))

FNeg(a) == [a EXCEPT !.sign = 1 - a.sign]

\* The sign of a product or a quotient.
SignXor(a, b) == (a.sign + b.sign) % 2

\* sa * ma * 2^e + sb * mb * 2^e, for the signs sa and sb.
AddMant(T, sa, sb, ma, mb, e) ==
  IF sa # sb /\ ma = mb THEN FZero(0)
  ELSE RoundPack(T,
                 IF sa = sb \/ BigLt(mb, ma) THEN sa ELSE sb,
                 IF sa = sb THEN BigAdd(ma, mb)
                 ELSE IF BigLt(mb, ma) THEN BigSub(ma, mb)
                 ELSE BigSub(mb, ma),
                 e, FALSE)

\* a + b for finite a and b, their significands aligned at 2^e.
AddAt(T, a, b, e) ==
  AddMant(T, a.sign, b.sign,
          BigShl(Mant(T, a), Exp2(T, a) - e),
          BigShl(Mant(T, b), Exp2(T, b) - e), e)

\* a + b
FAdd(T, a, b) ==
  IF IsNaN(T, a) \/ IsNaN(T, b) THEN QNaN(T)
  ELSE IF IsInf(T, a)
       THEN IF IsInf(T, b) /\ a.sign # b.sign THEN QNaN(T) ELSE a
  ELSE IF IsInf(T, b) THEN b
  ELSE IF IsZero(a) /\ IsZero(b)
       THEN FZero(IF a.sign = 1 /\ b.sign = 1 THEN 1 ELSE 0)
  ELSE AddAt(T, a, b, Min(Exp2(T, a), Exp2(T, b)))

\* a - b
FSub(T, a, b) == FAdd(T, a, FNeg(b))

\* a * b
FMul(T, a, b) ==
  IF IsNaN(T, a) \/ IsNaN(T, b) THEN QNaN(T)
  ELSE IF IsInf(T, a) \/ IsInf(T, b)
       THEN IF IsZero(a) \/ IsZero(b) THEN QNaN(T)
            ELSE FInf(T, SignXor(a, b))
  ELSE IF IsZero(a) \/ IsZero(b) THEN FZero(SignXor(a, b))
  ELSE RoundPack(T, SignXor(a, b), BigMul(Mant(T, a), Mant(T, b)),
                 Exp2(T, a) + Exp2(T, b), FALSE)

\* The float nearest to (d.quot + d.rem / divisor) * 2^e.
DivRound(T, s, d, e) == RoundPack(T, s, d.quot, e, d.rem # <<>>)

\* The shift that gives the quotient of ma by mb MBits + 3 bits at least.
DivShift(T, ma, mb) == Max(0, MBits(T) + 3 + BitLen(mb) - BitLen(ma))

\* (ma / mb) * 2^e
DivMant(T, s, ma, mb, e) ==
  DivRound(T, s, BigDivMod(BigShl(ma, DivShift(T, ma, mb)), mb),
           e - DivShift(T, ma, mb))

\* a / b
FDiv(T, a, b) ==
  IF IsNaN(T, a) \/ IsNaN(T, b) THEN QNaN(T)
  ELSE IF IsInf(T, a)
       THEN IF IsInf(T, b) THEN QNaN(T) ELSE FInf(T, SignXor(a, b))
  ELSE IF IsInf(T, b) THEN FZero(SignXor(a, b))
  ELSE IF IsZero(b)
       THEN IF IsZero(a) THEN QNaN(T) ELSE FInf(T, SignXor(a, b))
  ELSE IF IsZero(a) THEN FZero(SignXor(a, b))
  ELSE DivMant(T, SignXor(a, b), Mant(T, a), Mant(T, b),
               Exp2(T, a) - Exp2(T, b))

\* The shift that makes the exponent of m * 2^e even and gives the root
\* MBits + 3 bits at least.
SqrtShift(T, m, e) ==
  Max(0, 2 * (MBits(T) + 3) - BitLen(m))
    + ((e - Max(0, 2 * (MBits(T) + 3) - BitLen(m))) % 2)

\* The float nearest to the square root of n * 2^(2 * e), r the integer
\* square root of n.
SqrtRound(T, n, r, e) == RoundPack(T, 0, r, e, BigMul(r, r) # n)

SqrtExact(T, n, e) == SqrtRound(T, n, BigSqrt(n), e)

SqrtMant(T, m, e, k) == SqrtExact(T, BigShl(m, k), (e - k) \div 2)

\* The correctly rounded square root.
FSqrt(T, a) ==
  IF IsNaN(T, a) THEN QNaN(T)
  ELSE IF IsZero(a) THEN a
  ELSE IF a.sign = 1 THEN QNaN(T)
  ELSE IF IsInf(T, a) THEN a
  ELSE SqrtMant(T, Mant(T, a), Exp2(T, a),
                SqrtShift(T, Mant(T, a), Exp2(T, a)))

\* The magnitude order of two non-NaN floats.
MagLt(a, b) == IF a.exp # b.exp THEN a.exp < b.exp ELSE BigLt(a.frac, b.frac)

\* a < b
FLt(T, a, b) ==
  IF IsNaN(T, a) \/ IsNaN(T, b) THEN FALSE
  ELSE IF IsZero(a) /\ IsZero(b) THEN FALSE
  ELSE IF a.sign # b.sign THEN a.sign = 1
  ELSE IF a.sign = 0 THEN MagLt(a, b) ELSE MagLt(b, a)

\* a == b
FEq(T, a, b) ==
  IF IsNaN(T, a) \/ IsNaN(T, b) THEN FALSE
  ELSE (IsZero(a) /\ IsZero(b)) \/ a = b

\* a >= b
FGe(T, a, b) == FLt(T, b, a) \/ FEq(T, a, b)

\* a > b
FGt(T, a, b) == FLt(T, b, a)

\* digits / d for a power of ten d, with k more bits in the quotient.
LitAt(T, s, digits, d, k) ==
  DivRound(T, s, BigDivMod(BigShl(Nat2Big(digits), k), d), 0 - k)

\* The value of a decimal literal: s digits / 10^p, rounded to T.
Lit(T, s, digits, p) ==
  IF digits = 0 THEN FZero(s)
  ELSE LitAt(T, s, digits, BigPow10(p), MBits(T) + 3 + BitLen(BigPow10(p)))

(***************************************************************************)
(* The scalar math facade.  T is the scalar type, "f32" or "f64"; P is the *)
(* provider the build selected, "libm" (feature libm) or "native".         *)
(***************************************************************************)
Providers == {"libm", "native"}

\* The width of T in bits.
Width(T) == 1 + EBits(T) + MBits(T)

\* f32::to_bits / f64::to_bits: the u32 / u64 holding the float's bits.
to_bits(T, a) ==
  BigAdd(BigShl(Nat2Big(a.sign * (2 ^ EBits(T)) + a.exp), MBits(T)), a.frac)

is_sign_negative_f32(a) ==
  LET bits == to_bits("f32", a)
  IN  BigShr(bits, 31) # <<>>

\* is_sign_positive_f32 by an ordering comparison with zero.
is_sign_positive_f32_cmp(a) == FGe("f32", a, FZero(0))

is_sign_positive_f32(a) ==
  LET bits == to_bits("f32", a)
  IN  BigShr(bits, 31) = <<>>

\* is_sign_negative_f64 with the shift of the f32 function.
is_sign_negative_f64_shift31(a) ==
  LET bits == to_bits("f64", a)
  IN  BigShr(bits, 31) # <<>>

is_sign_negative_f64(a) ==
  LET bits == to_bits("f64", a)
  IN  BigShr(bits, 63) # <<>>

is_sign_positive_f64(a) ==
  LET bits == to_bits("f64", a)
  IN  BigShr(bits, 63) = <<>>

\* impl Float::one: the literal 1.0.
one(T, P) == Lit(T, 0, 10, 1)

\* impl Float::nan: f32::NAN / f64::NAN.
nan(T, P) == QNaN(T)

\* impl Float::is_sign_negative
is_sign_negative(T, P, a) ==
  IF T = "f32" THEN is_sign_negative_f32(a) ELSE is_sign_negative_f64(a)

\* impl Float::is_sign_positive
is_sign_positive(T, P, a) ==
  IF T = "f32" THEN is_sign_positive_f32(a) ELSE is_sign_positive_f64(a)

\* impl Float::copysign: libm::copysignf, libm::copysign, f32::copysign and
\* f64::copysign all return self with the sign bit of sign.
Float_copysign(T, P, a, sign) == [a EXCEPT !.sign = sign.sign]

\* impl Float::sqrt: libm::sqrtf, libm::sqrt, f32::sqrt and f64::sqrt are the
\* correctly rounded square root.
Float_sqrt(T, P, a) == FSqrt(T, a)

\* clamp in the manner of max(min) and min(max), which drop a NaN.
clamp_minmax(T, a, min, max) ==
  IF FGt(T, a, min) THEN (IF FLt(T, a, max) THEN a ELSE max) ELSE min

\* f32::clamp / f64::clamp (min <= max, neither NaN).
clamp(T, a, min, max) ==
  LET b == IF FLt(T, a, min) THEN min ELSE a
  IN  IF FGt(T, b, max) THEN max ELSE b

\* The values of acos on the inputs of the model, to the nearest f32.
AcosTab32 ==
  <<
     [x |-> Flt(1, 127, <<>>), y |-> Flt(0, 128, <<4059, 146>>)],   \* acos(-32/32) = 3.14159274
     [x |-> Flt(1, 126, <<0, 240>>), y |-> Flt(0, 128, <<1309, 114>>)],   \* acos(-31/32) = 2.89093709
     [x |-> Flt(1, 126, <<0, 224>>), y |-> Flt(0, 128, <<20642, 100>>)],   \* acos(-30/32) = 2.78617144
     [x |-> Flt(1, 126, <<0, 208>>), y |-> Flt(0, 128, <<8383, 90>>)],   \* acos(-29/32) = 2.70512366
     [x |-> Flt(1, 126, <<0, 192>>), y |-> Flt(0, 128, <<14343, 81>>)],   \* acos(-28/32) = 2.63623214
     [x |-> Flt(1, 126, <<0, 176>>), y |-> Flt(0, 128, <<19780, 73>>)],   \* acos(-27/32) = 2.57502842
     [x |-> Flt(1, 126, <<0, 160>>), y |-> Flt(0, 128, <<15096, 66>>)],   \* acos(-26/32) = 2.51922417
     [x |-> Flt(1, 126, <<0, 144>>), y |-> Flt(0, 128, <<27366, 59>>)],   \* acos(-25/32) = 2.46746206
     [x |-> Flt(1, 126, <<0, 128>>), y |-> Flt(0, 128, <<20115, 53>>)],   \* acos(-24/32) = 2.41885829
     [x |-> Flt(1, 126, <<0, 112>>), y |-> Flt(0, 128, <<23537, 47>>)],   \* acos(-23/32) = 2.37279916
     [x |-> Flt(1, 126, <<0, 96>>), y |-> Flt(0, 128, <<2987, 42>>)],   \* acos(-22/32) = 2.32883716
     [x |-> Flt(1, 126, <<0, 80>>), y |-> Flt(0, 128, <<22584, 36>>)],   \* acos(-21/32) = 2.28663445
     [x |-> Flt(1, 126, <<0, 64>>), y |-> Flt(0, 128, <<15688, 31>>)],   \* acos(-20/32) = 2.24592781
     [x |-> Flt(1, 126, <<0, 48>>), y |-> Flt(0, 128, <<14188, 26>>)],   \* acos(-19/32) = 2.20650768
     [x |-> Flt(1, 126, <<0, 32>>), y |-> Flt(0, 128, <<17365, 21>>)],   \* acos(-18/32) = 2.16820264
     [x |-> Flt(1, 126, <<0, 16>>), y |-> Flt(0, 128, <<24627, 16>>)],   \* acos(-17/32) = 2.13087153
     [x |-> Flt(1, 126, <<>>), y |-> Flt(0, 128, <<2706, 12>>)],   \* acos(-16/32) = 2.09439516
     [x |-> Flt(1, 125, <<0, 224>>), y |-> Flt(0, 128, <<16710, 7>>)],   \* acos(-15/32) = 2.05867147
     [x |-> Flt(1, 125, <<0, 192>>), y |-> Flt(0, 128, <<736, 3>>)],   \* acos(-14/32) = 2.02361298
     [x |-> Flt(1, 125, <<0, 160>>), y |-> Flt(0, 127, <<7226, 253>>)],   \* acos(-13/32) = 1.98914266
     [x |-> Flt(1, 125, <<0, 128>>), y |-> Flt(0, 127, <<17348, 244>>)],   \* acos(-12/32) = 1.95519304
     [x |-> Flt(1, 125, <<0, 96>>), y |-> Flt(0, 127, <<31331, 235>>)],   \* acos(-11/32) = 1.9217037
     [x |-> Flt(1, 125, <<0, 64>>), y |-> Flt(0, 127, <<15949, 227>>)],   \* acos(-10/32) = 1.88862002
     [x |-> Flt(1, 125, <<0, 32>>), y |-> Flt(0, 127, <<3557, 219>>)],   \* acos(-9/32) = 1.85589278
     [x |-> Flt(1, 125, <<>>), y |-> Flt(0, 127, <<26542, 210>>)],   \* acos(-8/32) = 1.82347655
     [x |-> Flt(1, 124, <<0, 192>>), y |-> Flt(0, 127, <<19018, 202>>)],   \* acos(-7/32) = 1.79132962
     [x |-> Flt(1, 124, <<0, 128>>), y |-> Flt(0, 127, <<13424, 194>>)],   \* acos(-6/32) = 1.75941277
     [x |-> Flt(1, 124, <<0, 64>>), y |-> Flt(0, 127, <<9451, 186>>)],   \* acos(-5/32) = 1.72768915
     [x |-> Flt(1, 124, <<>>), y |-> Flt(0, 127, <<6809, 178>>)],   \* acos(-4/32) = 1.6961242
     [x |-> Flt(1, 123, <<0, 128>>), y |-> Flt(0, 127, <<5215, 170>>)],   \* acos(-3/32) = 1.66468418
     [x |-> Flt(1, 123, <<>>), y |-> Flt(0, 127, <<4401, 162>>)],   \* acos(-2/32) = 1.63333714
     [x |-> Flt(1, 122, <<>>), y |-> Flt(0, 127, <<4101, 154>>)],   \* acos(-1/32) = 1.60205138
     [x |-> Flt(0, 0, <<>>), y |-> Flt(0, 127, <<4059, 146>>)],   \* acos(0/32) = 1.57079637
     [x |-> Flt(0, 122, <<>>), y |-> Flt(0, 127, <<4016, 138>>)],   \* acos(1/32) = 1.53954124
     [x |-> Flt(0, 123, <<>>), y |-> Flt(0, 127, <<3717, 130>>)],   \* acos(2/32) = 1.5082556
     [x |-> Flt(0, 123, <<0, 128>>), y |-> Flt(0, 127, <<2902, 122>>)],   \* acos(3/32) = 1.47690845
     [x |-> Flt(0, 124, <<>>), y |-> Flt(0, 127, <<1309, 114>>)],   \* acos(4/32) = 1.44546854
     [x |-> Flt(0, 124, <<0, 64>>), y |-> Flt(0, 127, <<31434, 105>>)],   \* acos(5/32) = 1.41390347
     [x |-> Flt(0, 124, <<0, 128>>), y |-> Flt(0, 127, <<27462, 97>>)],   \* acos(6/32) = 1.38217998
     [x |-> Flt(0, 124, <<0, 192>>), y |-> Flt(0, 127, <<21868, 89>>)],   \* acos(7/32) = 1.35026312
     [x |-> Flt(0, 125, <<>>), y |-> Flt(0, 127, <<14343, 81>>)],   \* acos(8/32) = 1.31811607
     [x |-> Flt(0, 125, <<0, 32>>), y |-> Flt(0, 127, <<4560, 73>>)],   \* acos(9/32) = 1.28569984
     [x |-> Flt(0, 125, <<0, 64>>), y |-> Flt(0, 127, <<24936, 64>>)],   \* acos(10/32) = 1.2529726
     [x |-> Flt(0, 125, <<0, 96>>), y |-> Flt(0, 127, <<9554, 56>>)],   \* acos(11/32) = 1.21988893
     [x |-> Flt(0, 125, <<0, 128>>), y |-> Flt(0, 127, <<23537, 47>>)],   \* acos(12/32) = 1.18639958
     [x |-> Flt(0, 125, <<0, 160>>), y |-> Flt(0, 127, <<891, 39>>)],   \* acos(13/32) = 1.15244997
     [x |-> Flt(0, 125, <<0, 192>>), y |-> Flt(0, 127, <<6646, 30>>)],   \* acos(14/32) = 1.11797976
     [x |-> Flt(0, 125, <<0, 224>>), y |-> Flt(0, 127, <<7465, 21>>)],   \* acos(15/32) = 1.08292115
     [x |-> Flt(0, 126, <<>>), y |-> Flt(0, 127, <<2706, 12>>)],   \* acos(16/32) = 1.04719758
     [x |-> Flt(0, 126, <<0, 16>>), y |-> Flt(0, 127, <<24398, 2>>)],   \* acos(17/32) = 1.01072097
     [x |-> Flt(0, 126, <<0, 32>>), y |-> Flt(0, 126, <<12309, 242>>)],   \* acos(18/32) = 0.973389924
     [x |-> Flt(0, 126, <<0, 48>>), y |-> Flt(0, 126, <<25020, 222>>)],   \* acos(19/32) = 0.935085058
     [x |-> Flt(0, 126, <<0, 64>>), y |-> Flt(0, 126, <<19018, 202>>)],   \* acos(20/32) = 0.895664811
     [x |-> Flt(0, 126, <<0, 80>>), y |-> Flt(0, 126, <<24204, 181>>)],   \* acos(21/32) = 0.854958296
     [x |-> Flt(0, 126, <<0, 96>>), y |-> Flt(0, 126, <<4288, 160>>)],   \* acos(22/32) = 0.812755585
     [x |-> Flt(0, 126, <<0, 112>>), y |-> Flt(0, 126, <<20391, 137>>)],   \* acos(23/32) = 0.768793523
     [x |-> Flt(0, 126, <<0, 128>>), y |-> Flt(0, 126, <<1309, 114>>)],   \* acos(24/32) = 0.722734272
     [x |-> Flt(0, 126, <<0, 144>>), y |-> Flt(0, 126, <<5073, 89>>)],   \* acos(25/32) = 0.674130499
     [x |-> Flt(0, 126, <<0, 160>>), y |-> Flt(0, 126, <<21387, 62>>)],   \* acos(26/32) = 0.622368515
     [x |-> Flt(0, 126, <<0, 176>>), y |-> Flt(0, 126, <<2652, 34>>)],   \* acos(27/32) = 0.566564322
     [x |-> Flt(0, 126, <<0, 192>>), y |-> Flt(0, 126, <<24398, 2>>)],   \* acos(28/32) = 0.505360484
     [x |-> Flt(0, 126, <<0, 208>>), y |-> Flt(0, 125, <<30942, 190>>)],   \* acos(29/32) = 0.436469018
     [x |-> Flt(0, 126, <<0, 224>>), y |-> Flt(0, 125, <<31173, 107>>)],   \* acos(30/32) = 0.355421215
     [x |-> Flt(0, 126, <<0, 240>>), y |-> Flt(0, 125, <<22000>>)],   \* acos(31/32) = 0.250655651
     [x |-> Flt(0, 127, <<>>), y |-> Flt(0, 0, <<>>)],   \* acos(32/32) = 0
     [x |-> Flt(1, 0, <<>>), y |-> Flt(0, 127, <<4059, 146>>)],   \* acos(-0.0) = 1.57079637
     [x |-> Flt(0, 126, <<32767, 255>>), y |-> Flt(0, 115, <<1267, 106>>)],   \* acos(the float below 1) = 0.000345266977
     [x |-> Flt(1, 126, <<32767, 255>>), y |-> Flt(0, 128, <<2610, 146>>)],   \* acos(the float above -1) = 3.14124727
     [x |-> Flt(0, 0, <<1>>), y |-> Flt(0, 127, <<4059, 146>>)],   \* acos(the least subnormal) = 1.57079637
     [x |-> Flt(1, 0, <<1>>), y |-> Flt(0, 127, <<4059, 146>>)]   \* acos(minus the least subnormal) = 1.57079637
  >>

\* The values of acos on the inputs of the model, to the nearest f64.
AcosTab64 ==
  <<
     [x |-> Flt(1, 1023, <<>>), y |-> Flt(0, 1024, <<11544, 10376, 2029, 73>>)],   \* acos(-32/32) = 3.14159265
     [x |-> Flt(1, 1022, <<0, 0, 0, 120>>), y |-> Flt(0, 1024, <<22869, 9603, 654, 57>>)],   \* acos(-31/32) = 2.89093699
     [x |-> Flt(1, 1022, <<0, 0, 0, 112>>), y |-> Flt(0, 1024, <<10480, 1071, 10321, 50>>)],   \* acos(-30/32) = 2.78617145
     [x |-> Flt(1, 1022, <<0, 0, 0, 104>>), y |-> Flt(0, 1024, <<7160, 13766, 4191, 45>>)],   \* acos(-29/32) = 2.70512362
     [x |-> Flt(1, 1022, <<0, 0, 0, 96>>), y |-> Flt(0, 1024, <<19237, 16770, 23555, 40>>)],   \* acos(-28/32) = 2.63623214
     [x |-> Flt(1, 1022, <<0, 0, 0, 88>>), y |-> Flt(0, 1024, <<25877, 26134, 26273, 36>>)],   \* acos(-27/32) = 2.57502832
     [x |-> Flt(1, 1022, <<0, 0, 0, 80>>), y |-> Flt(0, 1024, <<28707, 32641, 7547, 33>>)],   \* acos(-26/32) = 2.51922417
     [x |-> Flt(1, 1022, <<0, 0, 0, 72>>), y |-> Flt(0, 1024, <<13102, 5778, 30067, 29>>)],   \* acos(-25/32) = 2.46746215
     [x |-> Flt(1, 1022, <<0, 0, 0, 64>>), y |-> Flt(0, 1024, <<14019, 24359, 26441, 26>>)],   \* acos(-24/32) = 2.41885841
     [x |-> Flt(1, 1022, <<0, 0, 0, 56>>), y |-> Flt(0, 1024, <<21604, 12707, 28152, 23>>)],   \* acos(-23/32) = 2.3727991
     [x |-> Flt(1, 1022, <<0, 0, 0, 48>>), y |-> Flt(0, 1024, <<27001, 11980, 1493, 21>>)],   \* acos(-22/32) = 2.32883709
     [x |-> Flt(1, 1022, <<0, 0, 0, 40>>), y |-> Flt(0, 1024, <<18319, 28770, 11291, 18>>)],   \* acos(-21/32) = 2.28663439
     [x |-> Flt(1, 1022, <<0, 0, 0, 32>>), y |-> Flt(0, 1024, <<19088, 3371, 24228, 15>>)],   \* acos(-20/32) = 2.24592786
     [x |-> Flt(1, 1022, <<0, 0, 0, 24>>), y |-> Flt(0, 1024, <<4050, 27916, 7093, 13>>)],   \* acos(-19/32) = 2.20650761
     [x |-> Flt(1, 1022, <<0, 0, 0, 16>>), y |-> Flt(0, 1024, <<25343, 23586, 25066, 10>>)],   \* acos(-18/32) = 2.16820274
     [x |-> Flt(1, 1022, <<0, 0, 0, 8>>), y |-> Flt(0, 1024, <<26930, 23164, 12313, 8>>)],   \* acos(-17/32) = 2.13087163
     [x |-> Flt(1, 1022, <<>>), y |-> Flt(0, 1024, <<29542, 28762, 1352, 6>>)],   \* acos(-16/32) = 2.0943951
     [x |-> Flt(1, 1021, <<0, 0, 0, 112>>), y |-> Flt(0, 1024, <<21099, 32759, 24738, 3>>)],   \* acos(-15/32) = 2.05867147
     [x |-> Flt(1, 1021, <<0, 0, 0, 96>>), y |-> Flt(0, 1024, <<13920, 29020, 16751, 1>>)],   \* acos(-14/32) = 2.02361292
     [x |-> Flt(1, 1021, <<0, 0, 0, 80>>), y |-> Flt(0, 1023, <<30653, 7821, 19997, 126>>)],   \* acos(-13/32) = 1.98914271
     [x |-> Flt(1, 1021, <<0, 0, 0, 64>>), y |-> Flt(0, 1023, <<1485, 8045, 8674, 122>>)],   \* acos(-12/32) = 1.9551931
     [x |-> Flt(1, 1021, <<0, 0, 0, 48>>), y |-> Flt(0, 1023, <<4916, 12829, 32049, 117>>)],   \* acos(-11/32) = 1.92170367
     [x |-> Flt(1, 1021, <<0, 0, 0, 32>>), y |-> Flt(0, 1023, <<26051, 18000, 24358, 113>>)],   \* acos(-10/32) = 1.88862003
     [x |-> Flt(1, 1021, <<0, 0, 0, 16>>), y |-> Flt(0, 1023, <<9251, 14955, 18162, 109>>)],   \* acos(-9/32) = 1.85589277
     [x |-> Flt(1, 1021, <<>>), y |-> Flt(0, 1023, <<3852, 3982, 13271, 105>>)],   \* acos(-8/32) = 1.82347658
     [x |-> Flt(1, 1020, <<0, 0, 0, 96>>), y |-> Flt(0, 1023, <<2594, 28019, 9508, 101>>)],   \* acos(-7/32) = 1.79132959
     [x |-> Flt(1, 1020, <<0, 0, 0, 64>>), y |-> Flt(0, 1023, <<31800, 25547, 6711, 97>>)],   \* acos(-6/32) = 1.75941271
     [x |-> Flt(1, 1020, <<0, 0, 0, 32>>), y |-> Flt(0, 1023, <<20381, 23368, 4725, 93>>)],   \* acos(-5/32) = 1.7276892
     [x |-> Flt(1, 1020, <<>>), y |-> Flt(0, 1023, <<220, 11149, 3404, 89>>)],   \* acos(-4/32) = 1.69612416
     [x |-> Flt(1, 1019, <<0, 0, 0, 64>>), y |-> Flt(0, 1023, <<27499, 19882, 2607, 85>>)],   \* acos(-3/32) = 1.6646842
     [x |-> Flt(1, 1019, <<>>), y |-> Flt(0, 1023, <<122, 9307, 2200, 81>>)],   \* acos(-2/32) = 1.63333709
     [x |-> Flt(1, 1018, <<>>), y |-> Flt(0, 1023, <<13031, 21606, 2050, 77>>)],   \* acos(-1/32) = 1.60205142
     [x |-> Flt(0, 0, <<>>), y |-> Flt(0, 1023, <<11544, 10376, 2029, 73>>)],   \* acos(0/32) = 1.57079633
     [x |-> Flt(0, 1018, <<>>), y |-> Flt(0, 1023, <<10058, 31914, 2007, 69>>)],   \* acos(1/32) = 1.53954124
     [x |-> Flt(0, 1019, <<>>), y |-> Flt(0, 1023, <<22967, 11445, 1858, 65>>)],   \* acos(2/32) = 1.50825556
     [x |-> Flt(0, 1019, <<0, 0, 0, 64>>), y |-> Flt(0, 1023, <<28357, 869, 1451, 61>>)],   \* acos(3/32) = 1.47690845
     [x |-> Flt(0, 1020, <<>>), y |-> Flt(0, 1023, <<22869, 9603, 654, 57>>)],   \* acos(4/32) = 1.4454685
     [x |-> Flt(0, 1020, <<0, 0, 0, 32>>), y |-> Flt(0, 1023, <<2708, 30152, 32100, 52>>)],   \* acos(5/32) = 1.41390346
     [x |-> Flt(0, 1020, <<0, 0, 0, 64>>), y |-> Flt(0, 1023, <<24057, 27972, 30114, 48>>)],   \* acos(6/32) = 1.38217994
     [x |-> Flt(0, 1020, <<0, 0, 0, 96>>), y |-> Flt(0, 1023, <<20495, 25501, 27317, 44>>)],   \* acos(7/32) = 1.35026307
     [x |-> Flt(0, 1021, <<>>), y |-> Flt(0, 1023, <<19237, 16770, 23555, 40>>)],   \* acos(8/32) = 1.31811607
     [x |-> Flt(0, 1021, <<0, 0, 0, 16>>), y |-> Flt(0, 1023, <<13838, 5797, 18664, 36>>)],   \* acos(9/32) = 1.28569989
     [x |-> Flt(0, 1021, <<0, 0, 0, 32>>), y |-> Flt(0, 1023, <<29806, 2751, 12468, 32>>)],   \* acos(10/32) = 1.25297262
     [x |-> Flt(0, 1021, <<0, 0, 0, 48>>), y |-> Flt(0, 1023, <<18173, 7923, 4777, 28>>)],   \* acos(11/32) = 1.21988898
     [x |-> Flt(0, 1021, <<0, 0, 0, 64>>), y |-> Flt(0, 1023, <<21604, 12707, 28152, 23>>)],   \* acos(12/32) = 1.18639955
     [x |-> Flt(0, 1021, <<0, 0, 0, 80>>), y |-> Flt(0, 1023, <<25204, 12930, 16829, 19>>)],   \* acos(13/32) = 1.15244994
     [x |-> Flt(0, 1021, <<0, 0, 0, 96>>), y |-> Flt(0, 1023, <<28017, 28247, 3322, 15>>)],   \* acos(14/32) = 1.11797973
     [x |-> Flt(0, 1021, <<0, 0, 0, 112>>), y |-> Flt(0, 1023, <<13659, 20769, 20116, 10>>)],   \* acos(15/32) = 1.08292118
     [x |-> Flt(0, 1022, <<>>), y |-> Flt(0, 1023, <<29542, 28762, 1352, 6>>)],   \* acos(16/32) = 1.04719755
     [x |-> Flt(0, 1022, <<0, 0, 0, 8>>), y |-> Flt(0, 1023, <<1997, 7191, 12199, 1>>)],   \* acos(17/32) = 1.01072102
     [x |-> Flt(0, 1022, <<0, 0, 0, 16>>), y |-> Flt(0, 1022, <<10340, 12694, 6154, 121>>)],   \* acos(18/32) = 0.97338991
     [x |-> Flt(0, 1022, <<0, 0, 0, 24>>), y |-> Flt(0, 1022, <<29978, 28144, 12509, 111>>)],   \* acos(19/32) = 0.935085041
     [x |-> Flt(0, 1022, <<0, 0, 0, 32>>), y |-> Flt(0, 1022, <<2594, 28019, 9508, 101>>)],   \* acos(20/32) = 0.895664794
     [x |-> Flt(0, 1022, <<0, 0, 0, 40>>), y |-> Flt(0, 1022, <<5669, 24727, 28485, 90>>)],   \* acos(21/32) = 0.854958267
     [x |-> Flt(0, 1022, <<0, 0, 0, 48>>), y |-> Flt(0, 1022, <<3709, 26350, 2143, 80>>)],   \* acos(22/32) = 0.812755561
     [x |-> Flt(0, 1022, <<0, 0, 0, 56>>), y |-> Flt(0, 1022, <<25299, 23442, 26579, 68>>)],   \* acos(23/32) = 0.768793549
     [x |-> Flt(0, 1022, <<0, 0, 0, 64>>), y |-> Flt(0, 1022, <<22869, 9603, 654, 57>>)],   \* acos(24/32) = 0.722734248
     [x |-> Flt(0, 1022, <<0, 0, 0, 72>>), y |-> Flt(0, 1022, <<26537, 18391, 18920, 44>>)],   \* acos(25/32) = 0.674130507
     [x |-> Flt(0, 1022, <<0, 0, 0, 80>>), y |-> Flt(0, 1022, <<29652, 9241, 10693, 31>>)],   \* acos(26/32) = 0.622368489
     [x |-> Flt(0, 1022, <<0, 0, 0, 88>>), y |-> Flt(0, 1022, <<8204, 2502, 1326, 17>>)],   \* acos(27/32) = 0.566564331
     [x |-> Flt(0, 1022, <<0, 0, 0, 96>>), y |-> Flt(0, 1022, <<1997, 7191, 12199, 1>>)],   \* acos(28/32) = 0.50536051
     [x |-> Flt(0, 1022, <<0, 0, 0, 104>>), y |-> Flt(0, 1021, <<2307, 5649, 15471, 95>>)],   \* acos(29/32) = 0.436469029
     [x |-> Flt(0, 1022, <<0, 0, 0, 112>>), y |-> Flt(0, 1021, <<8514, 8904, 31970, 53>>)],   \* acos(30/32) = 0.355421202
     [x |-> Flt(0, 1022, <<0, 0, 0, 120>>), y |-> Flt(0, 1021, <<7710, 6181, 11000>>)],   \* acos(31/32) = 0.250655662
     [x |-> Flt(0, 1023, <<>>), y |-> Flt(0, 0, <<>>)],   \* acos(32/32) = 0
     [x |-> Flt(1, 0, <<>>), y |-> Flt(0, 1023, <<11544, 10376, 2029, 73>>)],   \* acos(-0.0) = 1.57079633
     [x |-> Flt(0, 1022, <<32767, 32767, 32767, 127>>), y |-> Flt(0, 997, <<>>)],   \* acos(the float below 1) = 1.49011612e-08
     [x |-> Flt(1, 1022, <<32767, 32767, 32767, 127>>), y |-> Flt(0, 1024, <<11544, 9352, 2029, 73>>)],   \* acos(the float above -1) = 3.14159264
     [x |-> Flt(0, 0, <<1>>), y |-> Flt(0, 1023, <<11544, 10376, 2029, 73>>)],   \* acos(the least subnormal) = 1.57079633
     [x |-> Flt(1, 0, <<1>>), y |-> Flt(0, 1023, <<11544, 10376, 2029, 73>>)]   \* acos(minus the least subnormal) = 1.57079633
  >>

\* libm::acosf, libm::acos, f32::acos and f64::acos: NaN outside [-1, 1].
Acos(T, a) ==
  IF IsNaN(T, a) \/ FGt(T, a, Lit(T, 0, 1, 0)) \/ FLt(T, a, Lit(T, 1, 1, 0))
  THEN QNaN(T)
  ELSE LET tab == IF T = "f32" THEN AcosTab32 ELSE AcosTab64
       IN  tab[CHOOSE i \in 1 .. Len(tab) : tab[i].x = a].y

\* Float::abs in the manner of an abs that hands a NaN back as it came.
Float_abs_nanpass(T, P, a) == IF IsNaN(T, a) THEN a ELSE [a EXCEPT !.sign = 0]

\* The trait's own abs, with the sign decided by comparing with zero.
Float_abs_cmp(T, P, a) == IF FLt(T, a, FZero(0)) THEN FNeg(a) ELSE a

\* Float::abs (default method)
Float_abs(T, P, a) ==
  IF is_sign_positive(T, P, a) THEN a
  ELSE IF is_sign_negative(T, P, a) THEN FNeg(a)
  ELSE nan(T, P)

\* pub(crate) fn abs
abs(T, P, f) == Float_abs(T, P, f)

\* pub(crate) fn sqrt
sqrt(T, P, f) == Float_sqrt(T, P, f)

\* rsqrt by another formula: the square root of the reciprocal.
Float_rsqrt_sqrtdiv(T, P, a) == Float_sqrt(T, P, FDiv(T, one(T, P), a))

\* Float::rsqrt (default method): Self::one() / Self::sqrt(self)
Float_rsqrt(T, P, a) == FDiv(T, one(T, P), Float_sqrt(T, P, a))

\* pub(crate) fn rsqrt
rsqrt(T, P, f) == Float_rsqrt(T, P, f)

\* Float::is_nan by the exponent field alone, which takes an infinity for a
\* NaN.
Float_is_nan_exp(T, P, a) == a.exp = ExpMax(T)

\* Float::is_nan (default method): self != self
Float_is_nan(T, P, a) == ~FEq(T, a, a)

\* Float::signum in the manner of a sign function that is zero at zero.
Float_signum_zero(T, P, a) ==
  IF Float_is_nan(T, P, a) THEN nan(T, P)
  ELSE IF IsZero(a) THEN a
  ELSE Float_copysign(T, P, one(T, P), a)

\* Float::signum (default method)
Float_signum(T, P, a) ==
  IF Float_is_nan(T, P, a) THEN nan(T, P)
  ELSE Float_copysign(T, P, one(T, P), a)

\* pub(crate) fn signum
signum(T, P, f) == Float_signum(T, P, f)

\* copysign with its arguments exchanged.
copysign_swapped(T, P, f, sign) == Float_copysign(T, P, sign, f)

\* pub(crate) fn copysign
copysign(T, P, f, sign) == Float_copysign(T, P, f, sign)

\* core::f32::consts::PI
PI_f32 == Lit("f32", 0, 314159265, 8)

\* omx without the replacement of a negative value by 0.
acos_omx_noclamp(x) == FSub("f32", Lit("f32", 0, 10, 1), x)

\* let mut omx = 1.0 - x; if omx < 0.0 { omx = 0.0; }
acos_omx(x) ==
  IF FLt("f32", FSub("f32", Lit("f32", 0, 10, 1), x), Lit("f32", 0, 0, 1))
  THEN Lit("f32", 0, 0, 1)
  ELSE FSub("f32", Lit("f32", 0, 10, 1), x)

\* The 7-degree minimax polynomial in x, as the expression nests it.
acos_poly(x) ==
  FAdd("f32",
    FMul("f32",
      FSub("f32",
        FMul("f32",
          FAdd("f32",
            FMul("f32",
              FSub("f32",
                FMul("f32",
                  FAdd("f32",
                    FMul("f32",
                      FSub("f32",
                        FMul("f32",
                          FAdd("f32",
                            FMul("f32", Lit("f32", 1, 12624911, 10), x),
                            Lit("f32", 0, 667009, 8)),
                          x),
                        Lit("f32", 0, 17088126, 9)),
                      x),
                    Lit("f32", 0, 3089188, 8)),
                  x),
                Lit("f32", 0, 50174303, 9)),
              x),
            Lit("f32", 0, 8897899, 8)),
          x),
        Lit("f32", 0, 2145988, 7)),
      x),
    Lit("f32", 0, 15707963, 7))

\* result, after result *= root, for x = abs(v).
acos_result(P, x) ==
  FMul("f32", acos_poly(x), sqrt("f32", P, acos_omx(x)))

\* The mirror correction chosen by the sign bit of v instead of v >= 0.0.
acos_mirror_signbit(v0, result) ==
  IF v0.sign = 0 THEN result ELSE FSub("f32", PI_f32, result)

\* The mirror correction with the sign changed instead of PI - result.
acos_mirror_neg(v0, result) ==
  IF FGe("f32", v0, Lit("f32", 0, 0, 1)) THEN result ELSE FNeg(result)

\* if nonnegative { result } else { PI - result }
acos_mirror(v0, result) ==
  IF FGe("f32", v0, Lit("f32", 0, 0, 1)) THEN result
  ELSE FSub("f32", PI_f32, result)

\* acos_approx_f32 without the mirror correction for negative inputs.
acos_approx_f32_nomirror(P, v0) == acos_result(P, abs("f32", P, v0))

\* fn acos_approx_f32(v: f32) -> f32
acos_approx_f32(P, v0) == acos_mirror(v0, acos_result(P, abs("f32", P, v0)))

\* impl Float for f32 (libm)::acos_clamped
f32_libm_acos_clamped(a) ==
  Acos("f32", clamp("f32", a, Lit("f32", 1, 10, 1), Lit("f32", 0, 10, 1)))

\* impl Float for f64 (libm)::acos_clamped
f64_libm_acos_clamped(a) ==
  Acos("f64", clamp("f64", a, Lit("f64", 1, 10, 1), Lit("f64", 0, 10, 1)))

\* impl Float for f32 (native)::acos_clamped
f32_native_acos_clamped(a) ==
  Acos("f32", clamp("f32", a, Lit("f32", 1, 10, 1), Lit("f32", 0, 10, 1)))

\* impl Float for f64 (native)::acos_clamped: f64::acos(self), no clamp
f64_native_acos_clamped(a) == Acos("f64", a)

\* Float::acos_clamped, as the build resolves it.
Float_acos_clamped(T, P, a) ==
  CASE T = "f32" /\ P = "libm"   -> f32_libm_acos_clamped(a)
    [] T = "f64" /\ P = "libm"   -> f64_libm_acos_clamped(a)
    [] T = "f32" /\ P = "native" -> f32_native_acos_clamped(a)
    [] T = "f64" /\ P = "native" -> f64_native_acos_clamped(a)

\* pub(crate) fn acos_clamped
acos_clamped(T, P, f) == Float_acos_clamped(T, P, f)

\* No impl overrides acos_approx.
OverridesAcosApprox_none(T, P) == FALSE

\* Whether the impl for T under P has its own acos_approx: the two f32 impls.
OverridesAcosApprox(T, P) == T = "f32"

\* Float::acos_approx (default method): Self::acos_clamped(self)
Float_acos_approx_default(T, P, a) == Float_acos_clamped(T, P, a)

\* Float::acos_approx, as the build resolves it.
Float_acos_approx(T, P, a) ==
  IF OverridesAcosApprox(T, P) THEN acos_approx_f32(P, a)
  ELSE Float_acos_approx_default(T, P, a)

\* pub(crate) fn acos_approx
acos_approx(T, P, f) == Float_acos_approx(T, P, f)

(***************************************************************************)
(* The calls.  Callees(T, P, f) are the functions the body of f calls in   *)
(* the build for T and P; a trait method is named Float::m, the function   *)
(* of a provider by its path.                                              *)
(***************************************************************************)
ProviderFn(T, P, m) ==
  CASE P = "libm" /\ T = "f32"   -> "libm::" \o m \o "f"
    [] P = "libm" /\ T = "f64"   -> "libm::" \o m
    [] P = "native"              -> T \o "::" \o m

Callees(T, P, f) ==
  CASE f = "abs"            -> {"Float::abs"}
    [] f = "acos_clamped"   -> {"Float::acos_clamped"}
    [] f = "acos_approx"    -> {"Float::acos_approx"}
    [] f = "rsqrt"          -> {"Float::rsqrt"}
    [] f = "sqrt"           -> {"Float::sqrt"}
    [] f = "copysign"       -> {"Float::copysign"}
    [] f = "signum"         -> {"Float::signum"}
    [] f = "Float::abs"     ->
         {"Float::is_sign_positive", "Float::is_sign_negative", "Float::nan"}
    [] f = "Float::acos_approx" ->
         IF OverridesAcosApprox(T, P) THEN {"acos_approx_f32"}
         ELSE {"Float::acos_clamped"}
    [] f = "Float::rsqrt"   -> {"Float::one", "Float::sqrt"}
    [] f = "Float::signum"  -> {"Float::is_nan", "Float::nan", "Float::one",
                                "Float::copysign"}
    [] f = "Float::is_sign_negative" -> {"is_sign_negative_" \o T}
    [] f = "Float::is_sign_positive" -> {"is_sign_positive_" \o T}
    [] f = "Float::copysign" -> {ProviderFn(T, P, "copysign")}
    [] f = "Float::sqrt"    -> {ProviderFn(T, P, "sqrt")}
    [] f = "Float::acos_clamped" ->
         IF T = "f64" /\ P = "native" THEN {ProviderFn(T, P, "acos")}
         ELSE {T \o "::clamp", ProviderFn(T, P, "acos")}
    [] f = "acos_approx_f32" -> {"abs", "sqrt"}
    [] f \in {"is_sign_negative_f32", "is_sign_positive_f32"} ->
         {"f32::to_bits"}
    [] f \in {"is_sign_negative_f64", "is_sign_positive_f64"} ->
         {"f64::to_bits"}
    [] OTHER -> {}

\* Everything a call of f may invoke, f included.
RECURSIVE Reach(_, _, _)
Reach(T, P, fs) ==
  LET more == fs \cup UNION {Callees(T, P, f) : f \in fs}
  IN  IF more = fs THEN fs ELSE Reach(T, P, more)

Invoked(T, P, f) == Reach(T, P, {f})

(***************************************************************************)
(* The inputs.  The floats k / 2^GridBits of [-1, 1], and the special      *)
(* values of each type.                                                    *)
(***************************************************************************)
GridBits == 4

FromInt(T, k) == Lit(T, IF k < 0 THEN 1 ELSE 0, IF k < 0 THEN 0 - k ELSE k, 0)

Grid(T) ==
  {FDiv(T, FromInt(T, k), FromInt(T, 2 ^ GridBits)) :
     k \in (0 - 2 ^ GridBits) .. (2 ^ GridBits)}

\* Both signs of a float.
Signed(a) == {a, FNeg(a)}

\* The all-ones fraction.
FracOnes(T) == BigSub(BigShl(<<1>>, MBits(T)), <<1>>)

\* NaNs: quiet and signalling, with and without a payload bit, both signs.
NaNs(T) ==
  UNION {Signed(Flt(0, ExpMax(T), f)) :
           f \in {BigShl(<<1>>, MBits(T) - 1), <<1>>,
                  BigAdd(BigShl(<<1>>, MBits(T) - 1), <<1>>)}}

Specials(T) ==
  UNION {Signed(a) :
           a \in {FZero(0),                          \* 0.0
                  Flt(0, 0, <<1>>),                  \* the least subnormal
                  Flt(0, Bias(T) - 1, FracOnes(T)),  \* the float below 1
                  Flt(0, Bias(T), <<1>>),            \* the float above 1
                  Lit(T, 0, 2, 0),                   \* 2.0
                  Lit(T, 0, 4, 0),                   \* 4.0
                  Flt(0, ExpMax(T) - 1, FracOnes(T)),\* MAX
                  FInf(T, 0)}}                       \* INFINITY
    \cup NaNs(T)

Inputs(T) == Grid(T) \cup Specials(T)

\* The second argument of copysign.
SignInputs(T) ==
  UNION {Signed(a) : a \in {FZero(0), Lit(T, 0, 2, 0), QNaN(T)}}

Unspecified_any(T, r) == NaNs(T) \cup {r}

\* The bits of a NaN that arithmetic or a provider function returns are not
\* specified: any NaN may come back.
Unspecified(T, r) == IF IsNaN(T, r) THEN NaNs(T) ELSE {r}

NoFloat == [sign |-> 0, exp |-> 0 - 1, frac |-> <<>>]

\* What one call f(a) or f(a, b) of the facade can return in a build (T, P).
Returns(f, T, P, a, b) ==
  CASE f = "abs" -> {abs(T, P, a)}
    [] f = "signum" -> {signum(T, P, a)}
    [] f = "copysign" -> {copysign(T, P, a, b)}
    [] f = "sqrt" -> Unspecified(T, sqrt(T, P, a))
    [] f = "rsqrt" -> Unspecified(T, rsqrt(T, P, a))
    [] f = "acos_clamped" -> Unspecified(T, acos_clamped(T, P, a))
    [] f = "acos_approx" -> Unspecified(T, acos_approx(T, P, a))
    [] f = "is_sign_negative" -> {is_sign_negative(T, P, a)}
    [] f = "is_sign_positive" -> {is_sign_positive(T, P, a)}
    [] f = "is_nan" -> {Float_is_nan(T, P, a)}

(***************************************************************************)
(* The caller of the facade.  A build fixes T and P; the caller holds a    *)
(* float arg and calls one function of the facade or of the trait on it.     *)
(***************************************************************************)
MathIdle ==
  /\ ty = "none"
  /\ prov = "none"
  /\ arg = NoFloat
  /\ arg2 = NoFloat
  /\ op = "none"
  /\ out = NoFloat
  /\ trace = {}

Init ==
  /\ v \in Vec4AValues
  /\ call = <<>>
  /\ res = NoValue
  /\ MathIdle
  /\ again = <<>>

MathInit ==
  /\ v = <<0, 0, 0, 0>>
  /\ call = <<>>
  /\ res = NoValue
  /\ ty \in ScalarTypes
  /\ prov \in Providers
  /\ arg \in Inputs(ty)
  /\ arg2 = NoFloat
  /\ op = "none"
  /\ out = NoFloat
  /\ trace = {}
  /\ again = <<>>

\* What a call leaves alone: the build and the argument.
Frame == UNCHANGED <<v, call, res, ty, prov, arg, again>>

Call_abs ==
  /\ op = "none"
  /\ op' = "abs"
  /\ out' = abs(ty, prov, arg)
  /\ trace' = Invoked(ty, prov, "abs")
  /\ UNCHANGED arg2
  /\ Frame

Call_signum ==
  /\ op = "none"
  /\ op' = "signum"
  /\ out' = signum(ty, prov, arg)
  /\ trace' = Invoked(ty, prov, "signum")
  /\ UNCHANGED arg2
  /\ Frame

Call_copysign ==
  /\ op = "none"
  /\ op' = "copysign"
  /\ \E sign \in SignInputs(ty) :
       /\ arg2' = sign
       /\ out' = copysign(ty, prov, arg, sign)
  /\ trace' = Invoked(ty, prov, "copysign")
  /\ Frame

Call_sqrt ==
  /\ op = "none"
  /\ op' = "sqrt"
  /\ out' \in Unspecified(ty, sqrt(ty, prov, arg))
  /\ trace' = Invoked(ty, prov, "sqrt")
  /\ UNCHANGED arg2
  /\ Frame

Call_rsqrt ==
  /\ op = "none"
  /\ op' = "rsqrt"
  /\ out' \in Unspecified(ty, rsqrt(ty, prov, arg))
  /\ trace' = Invoked(ty, prov, "rsqrt")
  /\ UNCHANGED arg2
  /\ Frame

Call_acos_clamped ==
  /\ op = "none"
  /\ op' = "acos_clamped"
  /\ out' \in Unspecified(ty, acos_clamped(ty, prov, arg))
  /\ trace' = Invoked(ty, prov, "acos_clamped")
  /\ UNCHANGED arg2
  /\ Frame

Call_acos_approx ==
  /\ op = "none"
  /\ op' = "acos_approx"
  /\ out' \in Unspecified(ty, acos_approx(ty, prov, arg))
  /\ trace' = Invoked(ty, prov, "acos_approx")
  /\ UNCHANGED arg2
  /\ Frame

\* The trait's sign tests and is_nan, called as the defaults call them.
Call_is_sign_negative ==
  /\ op = "none"
  /\ op' = "is_sign_negative"
  /\ out' = is_sign_negative(ty, prov, arg)
  /\ trace' = Invoked(ty, prov, "Float::is_sign_negative")
  /\ UNCHANGED arg2
  /\ Frame

Call_is_sign_positive ==
  /\ op = "none"
  /\ op' = "is_sign_positive"
  /\ out' = is_sign_positive(ty, prov, arg)
  /\ trace' = Invoked(ty, prov, "Float::is_sign_positive")
  /\ UNCHANGED arg2
  /\ Frame

Call_is_nan ==
  /\ op = "none"
  /\ op' = "is_nan"
  /\ out' = Float_is_nan(ty, prov, arg)
  /\ trace' = Invoked(ty, prov, "Float::is_nan")
  /\ UNCHANGED arg2
  /\ Frame

MathNext ==
  \/ Call_abs
  \/ Call_signum
  \/ Call_copysign
  \/ Call_sqrt
  \/ Call_rsqrt
  \/ Call_acos_clamped
  \/ Call_acos_approx
  \/ Call_is_sign_negative
  \/ Call_is_sign_positive
  \/ Call_is_nan

SpecMath == MathInit /\ [][MathNext]_vars

(***************************************************************************)
(* The caller.  It holds a Vec4A and calls one swizzle on it (v.p()); on a *)
(* Vec4A result it may call a second 4-letter swizzle (v.p().q()).         *)
(***************************************************************************)
\* v.name() for one of the 336 functions.
CallSwizzle ==
  /\ call = <<>>
  /\ \E i \in 1 .. Len(Vec4Swizzles) :
       /\ call' = <<Vec4Swizzles[i].name>>
       /\ res' = Swizzle(Vec4Swizzles[i], v)
  /\ UNCHANGED v
  /\ UNCHANGED mathVars
  /\ UNCHANGED again

\* v.p().q(): a 4-letter swizzle of the Vec4A the first call returned.
ChainSwizzle ==
  /\ Len(call) = 1
  /\ res.ty = "Vec4A"
  /\ \E i \in 1 .. Len(Fns4) :
       /\ call' = Append(call, Fns4[i].name)
       /\ res' = Swizzle4(Fns4[i], res.lanes)
  /\ UNCHANGED v
  /\ UNCHANGED mathVars
  /\ UNCHANGED again

Next ==
  \/ CallSwizzle
  \/ ChainSwizzle

Spec == Init /\ [][Next]_vars

(***************************************************************************)
(* The caller that makes the same call twice.  A swizzle takes `self` by   *)
(* value and a function of the facade takes its floats by value, so the    *)
(* second call gets the inputs the first one got.                          *)
(***************************************************************************)
\* v.name() again, for the swizzle called first.
RepeatSwizzle ==
  /\ Len(call) = 1
  /\ again = <<>>
  /\ \E i \in 1 .. Len(Vec4Swizzles) :
       /\ Vec4Swizzles[i].name = call[1]
       /\ again' = <<Swizzle(Vec4Swizzles[i], v)>>
  /\ UNCHANGED swzVars
  /\ UNCHANGED mathVars

\* The function of the facade called first, again on the same floats.
Call_again ==
  /\ op # "none"
  /\ again = <<>>
  /\ \E r \in Returns(op, ty, prov, arg, arg2) : again' = <<r>>
  /\ UNCHANGED swzVars
  /\ UNCHANGED mathVars

\* A caller of the swizzles has no build of the facade at hand (MathIdle).
SwizzleCall == ty = "none" /\ CallSwizzle

FacadeCall == ty # "none" /\ MathNext

InitCalls == Init \/ MathInit

NextCalls ==
  \/ SwizzleCall
  \/ RepeatSwizzle
  \/ FacadeCall
  \/ Call_again

SpecCalls == InitCalls /\ [][NextCalls]_vars


(***************************************************************************)
(* Properties of the swizzles.                                             *)
(***************************************************************************)
\* The plain field copy of the components a name spells.
FieldCopy(name, s) == [i \in 1 .. Len(name) |-> Field(s, name[i])]

\* All letter sequences of length k.
Names(k) == [1 .. k -> Letters]

\* C1: for every function of the impl and every input v, logical component i
\* of the result is the component of v named by the i-th letter of the
\* function's name: the result equals the plain field copy.
C1_SwizzleIsFieldCopy ==
  Len(call) = 1 => Logical(res) = FieldCopy(call[1], v)

C1_Witness ==
  /\ call = << <<"w", "x", "z">> >>
  /\ v = <<0, 1, 1, 1>>
  /\ res.ty = "Vec3A"
  /\ Logical(res) = <<1, 0, 1>>

\* C2: xyzw() returns a Vec4A whose four lanes equal the four lanes of v.
C2_IdentitySwizzle ==
  call = << <<"x", "y", "z", "w">> >> => res.ty = "Vec4A" /\ res.lanes = v

C2_Witness ==
  /\ call = << <<"x", "y", "z", "w">> >>
  /\ v = <<0, 1, 0, 1>>
  /\ res.lanes = <<0, 1, 0, 1>>

\* The position in Fns4 of the function a 4-letter name would have.
Index4(name) ==
  1 + 64 * LaneOf(name[1]) + 16 * LaneOf(name[2]) + 4 * LaneOf(name[3])
    + LaneOf(name[4])

\* The name whose i-th letter is the p-letter at the position q's i-th letter
\* selects.
Composed(p, q) == [i \in 1 .. 4 |-> p[LaneOf(q[i]) + 1]]

\* C3: for 4-letter swizzles p and q, v.p().q() equals v.r() for the composed
\* name r, and r is one of the 256 4-letter functions.
C3_Composition ==
  Len(call) = 2 =>
    LET r == Composed(call[1], call[2])
        k == Index4(r)
    IN  /\ k \in 1 .. Len(Fns4)
        /\ Fns4[k].name = r
        /\ res = Swizzle4(Fns4[k], v)

C3_Witness ==
  /\ call = << <<"y", "z", "w", "x">>, <<"w", "w", "x", "y">> >>
  /\ v = <<0, 0, 1, 1>>
  /\ res.lanes = <<0, 0, 0, 1>>

\* The entries of the impl named name.
Named(name) == {i \in 1 .. Len(Vec4Swizzles) : Vec4Swizzles[i].name = name}

\* What a function selects: the fields it copies or the indices it shuffles.
Selection(e) == IF e.ret = "Vec2" THEN <<e.x, e.y>> ELSE e.idx

ReturnType(k) ==
  CASE k = 2 -> "Vec2"
    [] k = 3 -> "Vec3A"
    [] k = 4 -> "Vec4A"

\* The impl has exactly one function per letter sequence of length 2, 3, 4
\* and nothing else, each returns the type of its width, and no two functions
\* of one width select the same tuple.
ImplExhaustive ==
  /\ Len(Vec4Swizzles) = 336
  /\ \A k \in 2 .. 4 : \A name \in Names(k) :
       /\ Cardinality(Named(name)) = 1
       /\ \A i \in Named(name) : Vec4Swizzles[i].ret = ReturnType(k)
  /\ \A i, j \in 1 .. Len(Vec4Swizzles) :
       (i # j /\ Vec4Swizzles[i].ret = Vec4Swizzles[j].ret)
         => Selection(Vec4Swizzles[i]) # Selection(Vec4Swizzles[j])

\* C4: the impl is exhaustive and well-formed (16 + 64 + 256 functions, one
\* per letter sequence, repeated letters included), and a call of a k-letter
\* function returns a value with exactly k logical components.
C4_ExhaustiveWellFormed ==
  /\ ImplExhaustive
  /\ Len(call) = 1 =>
       /\ Cardinality(Named(call[1])) = 1
       /\ res.ty = ReturnType(Len(call[1]))
       /\ Len(Logical(res)) = Len(call[1])

C4_Witness ==
  /\ call = << <<"w", "w">> >>
  /\ res = [ty |-> "Vec2", lanes |-> <<1, 1>>]
  /\ v = <<0, 0, 0, 1>>

\* C5: every physical lane of a result, the padding lane of a Vec3A included,
\* holds a value copied from one of the four components of v.
C5_NoPaddingLeak ==
  Len(call) >= 1 =>
    \A l \in 1 .. Len(res.lanes) : \E k \in 1 .. 4 : res.lanes[l] = v[k]

C5_Witness ==
  /\ Len(call) = 1
  /\ res.ty = "Vec3A"
  /\ v = <<1, 1, 1, 1>>
  /\ res.lanes = <<1, 1, 1, 1>>

(***************************************************************************)
(* Properties of the scalar math facade.  They are stated on the state     *)
(* after the call: op is the function called, arg its argument, out what   *)
(* it returned and trace what it may have invoked.                         *)
(***************************************************************************)
\* Two results are the same float: the same bits, or both NaN (whose bits
\* the providers leave open).
SameFloat(T, a, b) == (IsNaN(T, a) /\ IsNaN(T, b)) \/ a = b

MinusOne(T) == Lit(T, 1, 1, 0)

PlusOne(T) == Lit(T, 0, 1, 0)

\* C6 as stated: for both providers and both widths acos_clamped(x) is
\* acos(clamp(x, -1, 1)), so 0 above 1 and pi below -1, and never NaN for an
\* input that is not NaN.  (The f64 impl of the native provider calls
\* f64::acos on the unclamped input, which refutes it.)
C6_AcosClampedIsAcosOfClamp ==
  op = "acos_clamped" =>
    /\ SameFloat(ty, out, Acos(ty, clamp(ty, arg, MinusOne(ty), PlusOne(ty))))
    /\ (~IsNaN(ty, arg) => ~IsNaN(ty, out))

\* The exact inverse cosine, under the names a call of it leaves in trace.
ExactAcos(T, P) ==
  {"acos_clamped", "Float::acos_clamped", ProviderFn(T, P, "acos")}

\* C7 as stated: wherever the facade's acos_approx can be called it invokes
\* neither acos_clamped nor the provider's acos, and it can be called for
\* the 32-bit scalar type only.
C7_ApproxNeverExact ==
  op = "acos_approx" =>
    /\ ty = "f32"
    /\ trace \cap ExactAcos(ty, prov) = {}

\* C7 amended: for f32, on both providers, acos_approx runs acos_approx_f32
\* and invokes neither acos_clamped nor the provider's acos; for f64 it can
\* be called as well and runs the trait's default, which invokes
\* acos_clamped and through it the provider's acos.
C7_ApproxExactOnlyForF64 ==
  op = "acos_approx" =>
    IF ty = "f32"
    THEN /\ "acos_approx_f32" \in trace
         /\ trace \cap ExactAcos(ty, prov) = {}
    ELSE /\ "acos_approx_f32" \notin trace
         /\ {"Float::acos_clamped", ProviderFn(ty, prov, "acos")} \subseteq trace
         /\ SameFloat(ty, out, acos_clamped(ty, prov, arg))

\* acos_approx has been called for f64 and has invoked the exact acos.
C7_Witness ==
  /\ op = "acos_approx"
  /\ ty = "f64"
  /\ "Float::acos_clamped" \in trace
  /\ ~IsNaN(ty, out)

\* a is a finite float of [-1, 1].
InUnit(T, a) ==
  /\ ~IsNaN(T, a)
  /\ FGe(T, a, MinusOne(T))
  /\ FGe(T, PlusOne(T), a)

\* |a - b| in units of 2^e, for finite a and b and e at most their exponents.
DiffMant(T, a, b, e) ==
  LET ma == BigShl(Mant(T, a), Exp2(T, a) - e)
      mb == BigShl(Mant(T, b), Exp2(T, b) - e)
  IN  IF a.sign # b.sign THEN BigAdd(ma, mb)
      ELSE IF BigLt(ma, mb) THEN BigSub(mb, ma)
      ELSE BigSub(ma, mb)

\* |a - b| <= 10^-4 in exact arithmetic, for finite a and b.
WithinTolerance(T, a, b) ==
  LET e == Min(Exp2(T, a), Exp2(T, b))
      n == BigMul(DiffMant(T, a, b, e), BigPow10(4))
  IN  IF e <= 0 THEN BigLe(n, BigShl(<<1>>, 0 - e))
      ELSE BigLe(BigShl(n, e), <<1>>)

Finite(T, a) == ~IsNaN(T, a) /\ ~IsInf(T, a)

\* C8: for every finite x of [-1, 1], acos_approx(x) is finite and differs
\* from acos_clamped(x) by at most 1e-4.
C8_ApproxWithinTolerance ==
  (op = "acos_approx" /\ InUnit(ty, arg)) =>
    /\ Finite(ty, out)
    /\ WithinTolerance(ty, out, acos_clamped(ty, prov, arg))

\* The polynomial has run on a negative input of [-1, 1] and its result is
\* not the exact one.
C8_Witness ==
  /\ op = "acos_approx"
  /\ ty = "f32"
  /\ InUnit(ty, arg)
  /\ arg.sign = 1
  /\ ~IsZero(arg)
  /\ out # acos_clamped(ty, prov, arg)

\* C9: abs(x) is x with the sign bit cleared and every other bit unchanged,
\* for every bit pattern: +0.0 for -0.0, +inf for -inf, x itself when the
\* sign bit of x is clear, a NaN for a NaN; and the sign is decided by the
\* sign-bit tests alone.
C9_AbsClearsSignBit ==
  op = "abs" =>
    /\ out = [arg EXCEPT !.sign = 0]
    /\ (IsNaN(ty, arg) => IsNaN(ty, out))
    /\ trace \subseteq {"abs", "Float::abs", "Float::nan",
                        "Float::is_sign_positive", "Float::is_sign_negative",
                        "is_sign_positive_" \o ty, "is_sign_negative_" \o ty,
                        ty \o "::to_bits"}

\* abs has been called on a NaN whose sign bit is set.
C9_Witness ==
  /\ op = "abs"
  /\ IsNaN(ty, arg)
  /\ arg.sign = 1
  /\ out.sign = 0

\* The top bit of the bit pattern of a: bit 31 of an f32, bit 63 of an f64.
TopBit(T, a) == BigBit(to_bits(T, a), Width(T) - 1)

\* C10: is_sign_negative(x) is true exactly when the top bit of the bit
\* pattern of x is 1, is_sign_positive(x) exactly when it is 0, on both
\* providers and for every bit pattern; both only read the bits.
C10_SignTestsReadTopBit ==
  /\ op = "is_sign_negative" =>
       /\ out = (TopBit(ty, arg) = 1)
       /\ trace = {"Float::is_sign_negative", "is_sign_negative_" \o ty,
                   ty \o "::to_bits"}
  /\ op = "is_sign_positive" =>
       /\ out = (TopBit(ty, arg) = 0)
       /\ trace = {"Float::is_sign_positive", "is_sign_positive_" \o ty,
                   ty \o "::to_bits"}

\* is_sign_negative has answered TRUE for an f64 NaN whose sign bit is set.
C10_Witness ==
  /\ op = "is_sign_negative"
  /\ ty = "f64"
  /\ IsNaN(ty, arg)
  /\ arg.sign = 1
  /\ out = TRUE

\* C11: signum(x) is NaN when x is NaN; otherwise it is +1.0 when the sign
\* bit of x is clear and -1.0 when it is set, zeros included: signum(0.0)
\* is 1.0, signum(-0.0) is -1.0, and the result is never zero.
C11_SignumIsSignedOne ==
  op = "signum" =>
    /\ IsNaN(ty, arg) => IsNaN(ty, out)
    /\ ~IsNaN(ty, arg) =>
         /\ out = (IF TopBit(ty, arg) = 0 THEN PlusOne(ty) ELSE MinusOne(ty))
         /\ ~IsZero(out)

\* signum has been called on -0.0 and has returned -1.0.
C11_Witness ==
  /\ op = "signum"
  /\ arg = FZero(1)
  /\ out = MinusOne(ty)

\* The bits of a below the top bit: its magnitude.
MagnitudeBits(T, a) ==
  BigSub(to_bits(T, a), BigShl(Nat2Big(TopBit(T, a)), Width(T) - 1))

\* C12: copysign(x, sign) is the magnitude bits of x under the sign bit of
\* sign, for every pair of bit patterns, on both providers and both widths;
\* the first argument of the facade function gives the magnitude and the
\* second the sign.
C12_CopysignCombinesBits ==
  op = "copysign" =>
    to_bits(ty, out) =
      BigAdd(MagnitudeBits(ty, arg),
             BigShl(Nat2Big(TopBit(ty, arg2)), Width(ty) - 1))

\* copysign has given a positive NaN the sign of a negative number.
C12_Witness ==
  /\ op = "copysign"
  /\ IsNaN(ty, arg)
  /\ arg.sign = 0
  /\ ~IsNaN(ty, arg2)
  /\ arg2.sign = 1
  /\ out.sign = 1
  /\ out.frac = arg.frac

\* C13: rsqrt(x) is one() / sqrt(x) with the sqrt of the active provider,
\* for both widths and both providers, and no impl has a formula of its
\* own: the call goes through Float::rsqrt, Float::one and Float::sqrt to
\* the provider's sqrt, and to nothing else.
C13_RsqrtIsOneOverSqrt ==
  op = "rsqrt" =>
    /\ SameFloat(ty, out, FDiv(ty, PlusOne(ty), FSqrt(ty, arg)))
    /\ trace = {"rsqrt", "Float::rsqrt", "Float::one", "Float::sqrt",
                ProviderFn(ty, prov, "sqrt")}
    /\ arg = Lit(ty, 0, 4, 0) => out = Lit(ty, 0, 5, 1)
    /\ arg = FZero(0) => out = FInf(ty, 0)
    /\ arg = FZero(1) => out = FInf(ty, 1)
    /\ arg = FInf(ty, 0) => out = FZero(0)
    /\ arg = Lit(ty, 1, 4, 0) => IsNaN(ty, out)

\* rsqrt has been called on 4.0 and has returned 0.5.
C13_Witness ==
  /\ op = "rsqrt"
  /\ arg = Lit(ty, 0, 4, 0)
  /\ out = Lit(ty, 0, 5, 1)
  /\ ProviderFn(ty, prov, "sqrt") \in trace

\* C16 as stated: acos_approx stands for clamp(x, -1, 1).acos() on every
\* input: on both widths and both providers it returns for every non-NaN
\* x >= 1 its value at 1, for every non-NaN x <= -1 its value at -1, and
\* never NaN.  (The polynomial of acos_approx_f32 overflows on large |x| and
\* meets the zero square-root factor, and the f64 impl of the native
\* provider does not clamp; both give NaN.)
C16_ApproxClampsOutside ==
  (op = "acos_approx" /\ ~IsNaN(ty, arg)) =>
    /\ ~IsNaN(ty, out)
    /\ FGe(ty, arg, PlusOne(ty)) =>
         FEq(ty, out, acos_approx(ty, prov, PlusOne(ty)))
    /\ FGe(ty, MinusOne(ty), arg) =>
         FEq(ty, out, acos_approx(ty, prov, MinusOne(ty)))

\* p(a) * r of the documented algorithm, for a = |v|: the degree-7
\* polynomial times r = sqrt(max(0, 1 - a)).
DocumentedProduct(P, a) ==
  FMul("f32", acos_poly(a),
       FSqrt("f32", IF FLt("f32", FSub("f32", PlusOne("f32"), a), FZero(0))
                    THEN FZero(0)
                    ELSE FSub("f32", PlusOne("f32"), a)))

\* C17: acos_approx_f32 follows the documented algorithm: with a = |v| and
\* r = sqrt(max(0, 1 - a)) it returns p(a) * r when v >= 0 and PI - p(a) * r
\* when v < 0, p the degree-7 polynomial with constant term 1.5707963
\* (so p(0) * 1 at 0); hence acos_approx_f32(-x) = PI - acos_approx_f32(x)
\* for every x > 0.
C17_ApproxFollowsAlgorithm ==
  (op = "acos_approx" /\ ty = "f32" /\ ~IsNaN(ty, arg)) =>
    /\ FGe(ty, arg, FZero(0)) =>
         SameFloat(ty, out, DocumentedProduct(prov, [arg EXCEPT !.sign = 0]))
    /\ FLt(ty, arg, FZero(0)) =>
         /\ SameFloat(ty, out,
              FSub(ty, PI_f32,
                   DocumentedProduct(prov, [arg EXCEPT !.sign = 0])))
         /\ SameFloat(ty, out,
              FSub(ty, PI_f32, acos_approx_f32(prov, FNeg(arg))))
    /\ IsZero(arg) => out = Lit("f32", 0, 15707963, 7)

\* acos_approx_f32 has mirrored a negative input of (-1, 0).
C17_Witness ==
  /\ op = "acos_approx"
  /\ ty = "f32"
  /\ arg = Lit("f32", 1, 5, 1)
  /\ out = FSub(ty, PI_f32, acos_approx_f32(prov, Lit("f32", 0, 5, 1)))
  /\ FGt(ty, out, Lit("f32", 0, 2, 0))

\* C18: in acos_approx_f32 the argument of sqrt is never negative for an
\* input that is not NaN: 1 - |v| below 0 is replaced by 0, so the
\* square-root factor is 0 for every |v| >= 1 and is never the NaN of the
\* square root of a negative number.
C18_SqrtArgumentNotNegative ==
  (op = "acos_approx" /\ ty = "f32" /\ ~IsNaN(ty, arg)) =>
    /\ FGe(ty, acos_omx(abs(ty, prov, arg)), FZero(0))
    /\ ~IsNaN(ty, sqrt(ty, prov, acos_omx(abs(ty, prov, arg))))
    /\ FGe(ty, abs(ty, prov, arg), PlusOne(ty)) =>
         /\ IsZero(acos_omx(abs(ty, prov, arg)))
         /\ IsZero(sqrt(ty, prov, acos_omx(abs(ty, prov, arg))))

\* acos_approx_f32 has run on an input below -1, where 1 - |v| is negative.
C18_Witness ==
  /\ op = "acos_approx"
  /\ ty = "f32"
  /\ arg = Lit("f32", 1, 4, 0)
  /\ FLt(ty, FSub(ty, PlusOne(ty), abs(ty, prov, arg)), FZero(0))
  /\ ~IsNaN(ty, out)

\* C19: NaN propagates through the facade: for a NaN input of either sign
\* abs, signum, rsqrt, acos_clamped and acos_approx return NaN, on both
\* providers.
C19_NaNPropagates ==
  (op \in {"abs", "signum", "rsqrt", "acos_clamped", "acos_approx"}
     /\ IsNaN(ty, arg)) =>
    IsNaN(ty, out)

\* acos_clamped, which clamps first, has been called on a negative NaN.
C19_Witness ==
  /\ op = "acos_clamped"
  /\ prov = "libm"
  /\ IsNaN(ty, arg)
  /\ arg.sign = 1
  /\ IsNaN(ty, out)

\* C20: is_sign_positive(x) and is_sign_negative(x) are complementary for
\* every bit pattern of f32 and f64 (exactly one is true), so abs never
\* takes its third branch, which returns Self::nan(): abs returns its input
\* or the negation of its input, and the canonical NaN only when that is one
\* of the two.
C20_SignTestsComplementary ==
  /\ op \in {"abs", "is_sign_negative", "is_sign_positive"} =>
       is_sign_positive(ty, prov, arg) # is_sign_negative(ty, prov, arg)
  /\ op = "is_sign_negative" => out # is_sign_positive(ty, prov, arg)
  /\ op = "is_sign_positive" => out # is_sign_negative(ty, prov, arg)
  /\ op = "abs" =>
       /\ out = (IF is_sign_positive(ty, prov, arg) THEN arg ELSE FNeg(arg))
       /\ out = nan(ty, prov) => nan(ty, prov) \in {arg, FNeg(arg)}

\* abs has been called on a positive NaN that is not the canonical one: no
\* ordering comparison tells its sign.
C20_Witness ==
  /\ op = "abs"
  /\ IsNaN(ty, arg)
  /\ arg.sign = 0
  /\ arg # nan(ty, prov)
  /\ out = arg

(***************************************************************************)
(* C14: the libm provider and the native provider give the same semantics  *)
(* for the same scalar width: with sqrt, acos and copysign the same        *)
(* reference functions in both, every function of the facade returns the   *)
(* same result under both providers, for f32 and for f64.                  *)
(***************************************************************************)
OtherProvider(P) == IF P = "libm" THEN "native" ELSE "libm"

C14_ProvidersAgree ==
  op # "none" => out \in Returns(op, ty, OtherProvider(prov), arg, arg2)

(***************************************************************************)
(* C15: every function of the facade and every swizzle is deterministic    *)
(* and referentially transparent.  Two calls with bit-equal inputs in the  *)
(* same build return bit-equal results, and no call reads or writes any    *)
(* state other than its arguments: the source vector of a swizzle is left  *)
(* unchanged.                                                              *)
(***************************************************************************)
\* No step changes the receiver, the build or the floats passed.
ArgumentsKept ==
  /\ v' = v
  /\ ty' = ty
  /\ prov' = prov
  /\ arg' = arg
  /\ op # "none" => arg2' = arg2

\* The second call returned the very bits the first one returned.
BitEqualAgain ==
  again # <<>> => again[1] = (IF ty = "none" THEN res ELSE out)

ArithmeticNaN == {"sqrt", "rsqrt", "acos_clamped", "acos_approx"}

SameAgain ==
  again # <<>> =>
    \/ again[1] = (IF ty = "none" THEN res ELSE out)
    \/ /\ op \in ArithmeticNaN
       /\ IsNaN(ty, out)
       /\ IsNaN(ty, again[1])

C21_AbsIdempotent ==
  op = "abs" =>
    /\ is_sign_positive(ty, prov, out)
    /\ ~is_sign_negative(ty, prov, out)
    /\ abs(ty, prov, out) = out
    /\ abs(ty, prov, abs(ty, prov, arg)) = abs(ty, prov, arg)

\* abs has cleared the sign bit of a NaN, and abs of the result is the result.
C21_Witness ==
  /\ op = "abs"
  /\ IsNaN(ty, arg)
  /\ arg.sign = 1
  /\ out # arg
  /\ is_sign_positive(ty, prov, out)
  /\ abs(ty, prov, out) = out

\* C22: acos_approx_f32 selects its mirror branch by the comparison
\* v >= 0.0, not by the sign bit.  For v = -0.0 the branch that does not
\* mirror is taken, so acos_approx_f32(-0.0) is bit-equal to
\* acos_approx_f32(+0.0), the constant term 1.5707963 of the polynomial; the
\* mirrored branch is taken exactly for v < 0 and for NaN.
C22_MirrorByComparison ==
  (op = "acos_approx" /\ ty = "f32") =>
    /\ arg = FZero(1) =>
         /\ out = acos_approx_f32(prov, FZero(0))
         /\ out = Lit("f32", 0, 15707963, 7)
    /\ (acos_mirror(arg, PlusOne(ty)) = FSub(ty, PI_f32, PlusOne(ty)))
         <=> (FLt(ty, arg, FZero(0)) \/ IsNaN(ty, arg))
    /\ (acos_mirror(arg, PlusOne(ty)) = PlusOne(ty))
         <=> ~(FLt(ty, arg, FZero(0)) \/ IsNaN(ty, arg))
    /\ SameFloat(ty, out,
         IF FLt(ty, arg, FZero(0)) \/ IsNaN(ty, arg)
         THEN FSub(ty, PI_f32, acos_result(prov, abs(ty, prov, arg)))
         ELSE acos_result(prov, abs(ty, prov, arg)))

\* acos_approx_f32 has run on -0.0 and has not mirrored.
C22_Witness ==
  /\ op = "acos_approx"
  /\ ty = "f32"
  /\ arg = FZero(1)
  /\ out = Lit("f32", 0, 15707963, 7)
  /\ out # FSub(ty, PI_f32, Lit("f32", 0, 15707963, 7))

\* C23: for every 3-letter swizzle and every input v, the fourth physical
\* lane (the padding) of the Vec3A returned holds the x component of v:
\* shuffle index 4 is lane 0 of the second operand, whatever three
\* components the name selects.
C23_PaddingIsX ==
  /\ \A i \in 1 .. Len(Fns3) : Fns3[i].idx[4] = 4
  /\ (Len(call) = 1 /\ Len(call[1]) = 3) =>
       /\ res.ty = "Vec3A"
       /\ Len(res.lanes) = 4
       /\ res.lanes[4] = v[1]
       /\ res.lanes[4] = Field(v, "x")

\* yzw has been called on a vector whose x alone is 1: the padding is 1.
C23_Witness ==
  /\ call = << <<"y", "z", "w">> >>
  /\ v = <<1, 0, 0, 0>>
  /\ res.ty = "Vec3A"
  /\ res.lanes = <<0, 0, 0, 1>>

\* The letter of a lane.
LetterOf(l) == CHOOSE f \in Letters : LaneOf(f) = l

\* A name whose four letters are a permutation of x, y, z, w.
IsPermutation(name) ==
  Len(name) = 4 /\ {name[i] : i \in 1 .. 4} = Letters

\* The positions in Fns4 of the functions named by a permutation.
PermutationFns == {i \in 1 .. Len(Fns4) : IsPermutation(Fns4[i].name)}

\* The name that puts back what p moved: its i-th letter is the position at
\* which p has the i-th letter.
InverseName(p) ==
  [i \in 1 .. 4 |->
     LetterOf((CHOOSE j \in 1 .. 4 : p[j] = LetterOf(i - 1)) - 1)]

\* Every permutation function has exactly one function among the same 24
\* that undoes it on every vector.
PermutationsInvert ==
  /\ Cardinality(PermutationFns) = 24
  /\ \A i \in PermutationFns :
       /\ Cardinality({j \in PermutationFns :
            \A s \in Vec4AValues :
              Swizzle4(Fns4[j], Swizzle4(Fns4[i], s).lanes).lanes = s}) = 1
       /\ \E j \in PermutationFns :
            /\ Fns4[j].name = InverseName(Fns4[i].name)
            /\ \A s \in Vec4AValues :
                 Swizzle4(Fns4[j], Swizzle4(Fns4[i], s).lanes).lanes = s

\* C24: each of the 24 four-letter swizzles whose letters are a permutation
\* of x, y, z, w has an inverse among the same 24 functions: the swizzle and
\* then its inverse return a value bit-equal to the input, for every input.
C24_PermutationsHaveInverse ==
  /\ PermutationsInvert
  /\ (/\ Len(call) = 2
      /\ IsPermutation(call[1])
      /\ call[2] = InverseName(call[1])) =>
       /\ IsPermutation(call[2])
       /\ res.ty = "Vec4A"
       /\ res.lanes = v

\* v.yzwx().wxyz() has returned v.
C24_Witness ==
  /\ call = << <<"y", "z", "w", "x">>, <<"w", "x", "y", "z">> >>
  /\ v = <<0, 1, 0, 0>>
  /\ res.ty = "Vec4A"
  /\ res.lanes = <<0, 1, 0, 0>>

\* The bit pattern of a is a NaN's: below the sign bit, the exponent field
\* is all ones and the fraction is not zero.
NaNPattern(T, a) ==
  BigLt(BigShl(Nat2Big(ExpMax(T)), MBits(T)), MagnitudeBits(T, a))

\* C25: is_nan (x != x) is true exactly for the NaN bit patterns of either
\* sign and false for every other value, +0.0, -0.0 and both infinities
\* included, so signum takes its NaN branch exactly for NaN inputs.
C25_IsNaNExactlyForNaN ==
  /\ op = "is_nan" =>
       /\ out = NaNPattern(ty, arg)
       /\ (IsZero(arg) \/ IsInf(ty, arg)) => out = FALSE
  /\ op = "signum" =>
       /\ Float_is_nan(ty, prov, arg) = NaNPattern(ty, arg)
       /\ (out = nan(ty, prov)) = NaNPattern(ty, arg)
       /\ IsNaN(ty, out) = NaNPattern(ty, arg)
       /\ "Float::is_nan" \in trace

\* is_nan has been called on a NaN whose sign bit is set.
C25_Witness ==
  /\ op = "is_nan"
  /\ NaNPattern(ty, arg)
  /\ arg.sign = 1
  /\ out = TRUE

=============================================================================
